---- MODULE Spec2Model ----
(***************************************************************************)
(* WearCapture: the capture engine (wearcapture/capture_engine.py), the    *)
(* configuration validation (wearcapture/config.py) and the device bridge  *)
(* it drives (wearcapture/adb.py), as a state machine.                     *)
(*                                                                         *)
(* One engine thread runs WearCaptureEngine.capture; its position is pc.   *)
(* A second thread (the UI) may set the cancel flag at any moment.         *)
(* Ratios and similarities (Python floats in [0,1]) are kept in permille.  *)
(* File-system failures of the final PNG write are not modelled.           *)
(***************************************************************************)
EXTENDS Integers, Sequences, FiniteSets, TLC

VARIABLES
    config,            \* the CaptureConfig handed to capture()
    stop_event,        \* TRUE iff a threading.Event was passed (not None)
    cancel,            \* stop_event.is_set()
    cancel_at,         \* history: where the engine was when the flag was set
    progress_fn,       \* TRUE iff a progress sink was passed (not None)
    adb,               \* behaviour of the bridge: [available, online]
    pc,                \* position of the engine thread inside capture()
    serial,            \* resolved device serial
    frames,            \* the frame buffer
    first,             \* the first captured frame
    swipe,             \* the SwipeSpec derived from the first frame
    prev,              \* frame the detector compares against
    curr,              \* frame captured in the current iteration
    stop,              \* StopCheckResult of the current iteration
    stop_reason,
    performed_swipes,
    low_motion_hits,
    idx,               \* loop variable of "for idx in range(max_swipes)"
    remaining,         \* remaining post-swipe delay, in ms
    calls,             \* bridge operations issued so far, in order
    events,            \* CaptureProgress events delivered to the sink
    logs,              \* number of log lines emitted
    written,           \* TRUE iff the PNG was written to output_path
    result,            \* the CaptureResult returned
    error,             \* the kind of the exception raised
    verdicts,          \* history: the detector's verdict of each iteration
    screenshots,       \* history: the size of each screenshot the bridge gave
    stitched,          \* outcome of stitch_frames applied on its own
    store,             \* the user profile file: the stored profiles, in order
    upserts,           \* history: the arguments of every accepted upsert
    suggested,         \* outcome of suggest_profile applied on its own
    imported,          \* outcome of export_profile then import_profile
    overlaps,          \* history: what find_best_overlap gave, pair by pair
    app                \* the desktop UI: WearCaptureApp and its worker threads

vars == <<config, stop_event, cancel, cancel_at, progress_fn, adb, pc, serial, frames,
          first, swipe, prev, curr, stop, stop_reason, performed_swipes,
          low_motion_hits, idx, remaining, calls, events, logs, written,
          result, error, verdicts, screenshots, stitched, store, upserts, suggested,
          imported, overlaps, app>>

(***************************************************************************)
(* Bounds of the model.                                                    *)
(***************************************************************************)
MaxSwipes == 3
MaxConsecutive == 2
MaxDelaySlices == 1
\* capture sessions the UI starts, and log or progress events a hosted
\* capture emits
MaxStarts == 2
MaxWorkerEvents == 2

(***************************************************************************)
(* Program constants.                                                      *)
(***************************************************************************)
SleepSliceMs == 50
AutoDurationMs == 300
NoneInt == -999999

UserStop == "user requested stop"
MaxSwipesReached == "max swipes reached"
BottomTopReason == "bottom/top region similarity threshold reached"
FullFrameReason == "frame-to-frame similarity indicates no further scrolling"
LowMotionReason == "estimated motion <= low_motion_px for low_motion_consecutive consecutive frames"
ContinueReason == "continue"

(***************************************************************************)
(* CaptureConfig and its validation.                                       *)
(***************************************************************************)
DefaultConfig ==
    [output_path |-> "out.png", serial |-> "", simple_mode |-> TRUE,
     swipe_x1 |-> NoneInt, swipe_y1 |-> NoneInt,
     swipe_x2 |-> NoneInt, swipe_y2 |-> NoneInt,
     swipe_duration_ms |-> 300, scroll_delay_ms |-> 500, max_swipes |-> 30,
     similarity_threshold |-> 995, use_ssim |-> TRUE,
     stop_region_ratio |-> 200, low_motion_px |-> 20,
     low_motion_similarity |-> 930, low_motion_consecutive |-> 2,
     min_overlap_ratio |-> 80, max_overlap_ratio |-> 920,
     overlap_min_similarity |-> 700, downscale_width |-> 320,
     circular_mask |-> FALSE]

\* TRUE iff config.validate() returns without raising ValueError.
Validate(c) ==
    /\ ~(c.max_swipes < 1)
    /\ (0 <= c.similarity_threshold /\ c.similarity_threshold <= 1000)
    /\ (0 <= c.low_motion_px /\ c.low_motion_px <= 200)
    /\ (0 <= c.low_motion_similarity /\ c.low_motion_similarity <= 1000)
    /\ ~(c.low_motion_consecutive < 1)
    /\ (0 < c.stop_region_ratio /\ c.stop_region_ratio < 1000)
    /\ (0 < c.min_overlap_ratio /\ c.min_overlap_ratio < 1000)
    /\ (0 < c.max_overlap_ratio /\ c.max_overlap_ratio < 1000)
    /\ ~(c.min_overlap_ratio >= c.max_overlap_ratio)
    /\ ~(c.downscale_width < 64)

(***************************************************************************)
(* Frames, swipe geometry, progress events.                                *)
(***************************************************************************)
FrameSizes == {[w |-> 454, h |-> 454], [w |-> 360, h |-> 360]}
NoStitch == [ok |-> FALSE, error |-> "", w |-> 0, h |-> 0, parts |-> << >>]

\* A screenshot is its size and its pixel rows.  Every row is one grey
\* level (0..MaxLevel, in steps of 255/MaxLevel) across the whole width;
\* px = << >> stands for content the model does not look into.
Image(w, h, px) == [w |-> w, h |-> h, px |-> px]
Opaque == << >>

\* A frame is a screenshot and the number of the screenshot call it came from.
Frame(size, shot) ==
    [w |-> size.w, h |-> size.h, shot |-> shot, px |-> size.px]
NoFrame == [w |-> 0, h |-> 0, shot |-> 0, px |-> Opaque]

SameSize(a, b) == a.w = b.w /\ a.h = b.h

\* Variant: the frame is left in the size it came in.
Resize_KeepsSize(frame, target) == frame

\* frame.resize(target.size, BILINEAR): the same size keeps the pixels, a
\* change of size gives resampled content the model does not look into.
Resize(frame, target) ==
    [frame EXCEPT !.w = target.w, !.h = target.h,
                  !.px = IF SameSize(frame, target) THEN @ ELSE Opaque]

\* Variant: the product is rounded to the nearest pixel.
IntScale_Rounds(h, percent) == (h * percent + 50) \div 100

\* int(h * 0.78), int(h * 0.24): truncation of a non-negative product
IntScale(h, percent) == (h * percent) \div 100

SwipeSpec(x1, y1, x2, y2, d) ==
    [x1 |-> x1, y1 |-> y1, x2 |-> x2, y2 |-> y2, duration_ms |-> d]
NoSwipe == SwipeSpec(NoneInt, NoneInt, NoneInt, NoneInt, NoneInt)

\* Variant: the swipe runs along the right edge of the screen.
AutoSwipeSpec_RightEdge(frame) ==
    SwipeSpec(frame.w, IntScale(frame.h, 78),
              frame.w, IntScale(frame.h, 24), AutoDurationMs)

AutoSwipeSpec(frame) ==
    SwipeSpec(frame.w \div 2, IntScale(frame.h, 78),
              frame.w \div 2, IntScale(frame.h, 24), AutoDurationMs)

\* Variant: an override is taken only when it is true in Python's sense,
\* so that 0 counts as absent.
AdvancedSwipeSpec_ZeroIsAbsent(c, frame) ==
    SwipeSpec(IF c.swipe_x1 \notin {NoneInt, 0} THEN c.swipe_x1
              ELSE frame.w \div 2,
              IF c.swipe_y1 \notin {NoneInt, 0} THEN c.swipe_y1
              ELSE IntScale(frame.h, 78),
              IF c.swipe_x2 \notin {NoneInt, 0} THEN c.swipe_x2
              ELSE frame.w \div 2,
              IF c.swipe_y2 \notin {NoneInt, 0} THEN c.swipe_y2
              ELSE IntScale(frame.h, 24),
              c.swipe_duration_ms)

AdvancedSwipeSpec(c, frame) ==
    SwipeSpec(IF c.swipe_x1 # NoneInt THEN c.swipe_x1 ELSE frame.w \div 2,
              IF c.swipe_y1 # NoneInt THEN c.swipe_y1 ELSE IntScale(frame.h, 78),
              IF c.swipe_x2 # NoneInt THEN c.swipe_x2 ELSE frame.w \div 2,
              IF c.swipe_y2 # NoneInt THEN c.swipe_y2 ELSE IntScale(frame.h, 24),
              c.swipe_duration_ms)

\* Variant: the event carries the swipe count as its frame count.
CaptureProgress_CountsSwipes(phase, swipes, nframes, max) ==
    [phase |-> phase, swipes_performed |-> swipes,
     frames_captured |-> swipes, max_swipes |-> max]

CaptureProgress(phase, swipes, nframes, max) ==
    [phase |-> phase, swipes_performed |-> swipes,
     frames_captured |-> nframes, max_swipes |-> max]

\* _emit_progress: the event reaches the sink only when a sink was passed.
EmitProgress(evs, sink, progress) ==
    IF sink THEN Append(evs, progress) ELSE evs

\* A bridge operation as the bridge sees it.
Call(op, ser, spec) == [op |-> op, serial |-> ser, spec |-> spec]

StopCheckResult(should_stop, reason, bottom_top_similarity, full_similarity, estimated_motion_px, overlap_similarity, low_motion_candidate) ==
    [should_stop |-> should_stop, reason |-> reason,
     bottom_top_similarity |-> bottom_top_similarity,
     full_similarity |-> full_similarity,
     estimated_motion_px |-> estimated_motion_px,
     overlap_similarity |-> overlap_similarity,
     low_motion_candidate |-> low_motion_candidate]
\* the measurements of a verdict on frames whose content is not looked into
NoMetric == NoneInt
NoStop == StopCheckResult(FALSE, "", NoMetric, NoMetric, NoMetric, NoMetric,
                          FALSE)

\* The verdicts detect_scroll_termination can return on frames whose content
\* is not looked into: the reason is fixed by the rule that fired,
\* low_motion_candidate is computed independently.
DetectorOutcomes ==
    {StopCheckResult(TRUE, BottomTopReason, NoMetric, NoMetric, NoMetric,
                     NoMetric, l) : l \in BOOLEAN} \cup
    {StopCheckResult(TRUE, FullFrameReason, NoMetric, NoMetric, NoMetric,
                     NoMetric, l) : l \in BOOLEAN} \cup
    {StopCheckResult(FALSE, ContinueReason, NoMetric, NoMetric, NoMetric,
                     NoMetric, l) : l \in BOOLEAN}

CaptureResult(path, ser, nframes, swipes, reason) ==
    [output_path |-> path, device_serial |-> ser, frames_captured |-> nframes,
     swipes_performed |-> swipes, stop_reason |-> reason]
NoResult == CaptureResult("", "", 0, 0, "")

(***************************************************************************)
(* Image operations (wearcapture/image_ops.py).                            *)
(*                                                                         *)
(* A pixel row is 0 (black, grey value 0) or 1 (white, grey value 255)     *)
(* across the whole width, so a mean over the pixels of k rows is the mean *)
(* over the k row values.  Similarities are computed exactly and reported  *)
(* in permille, rounded down; a comparison "similarity >= threshold" with  *)
(* a threshold in whole permille is not changed by that rounding.          *)
(***************************************************************************)
Min(a, b) == IF a < b THEN a ELSE b
Max(a, b) == IF a > b THEN a ELSE b
Abs(x) == IF x < 0 THEN -x ELSE x

\* int(h * ratio) for a ratio in permille
IntRatio(h, permille) == (h * permille) \div 1000

\* arr[-k:]
LastRows(arr, k) ==
    IF k = 0 \/ k >= Len(arr) THEN arr
    ELSE SubSeq(arr, Len(arr) - k + 1, Len(arr))

\* arr[:k]
FirstRows(arr, k) == SubSeq(arr, 1, IF k < Len(arr) THEN k ELSE Len(arr))

\* arr[k:]
RowsFrom(arr, k) == SubSeq(arr, k + 1, Len(arr))

RECURSIVE SumRows(_)
SumRows(a) == IF a = << >> THEN 0 ELSE a[1] + SumRows(Tail(a))

\* sum of a*b and of |a-b| over the rows
RECURSIVE DotRows(_, _)
DotRows(a, b) ==
    IF a = << >> THEN 0 ELSE a[1] * b[1] + DotRows(Tail(a), Tail(b))

\* np.abs(a - b) summed over the rows: one unit for every grey level of
\* every row's difference
AbsDiffRows(a, b) ==
    Cardinality(UNION {{<<i, d>> : d \in 1..Abs(a[i] - b[i])} :
                          i \in 1..Len(a)})

\* Natural numbers beyond the machine word, as limbs of three decimal
\* digits, least significant first.
Base == 1000
BigLen == 7

RECURSIVE Limbs(_, _)
Limbs(x, len) ==
    IF len = 0 THEN << >> ELSE <<x % Base>> \o Limbs(x \div Base, len - 1)

RECURSIVE TimesCarry(_, _, _, _)
TimesCarry(A, m, i, carry) ==
    IF i > Len(A) THEN << >>
    ELSE LET t == A[i] * m + carry
         IN  <<t % Base>> \o TimesCarry(A, m, i + 1, t \div Base)

RECURSIVE PlusCarry(_, _, _, _)
PlusCarry(A, B, i, carry) ==
    IF i > Len(A) THEN << >>
    ELSE LET t == A[i] + B[i] + carry
         IN  <<t % Base>> \o PlusCarry(A, B, i + 1, t \div Base)

\* A * m for 0 <= m < 2 * 10^9
BigTimes(A, m) ==
    LET high == TimesCarry(A, m \div Base, 1, 0)
        low  == TimesCarry(A, m % Base, 1, 0)
    IN  PlusCarry(<<0>> \o SubSeq(high, 1, Len(high) - 1), low, 1, 0)

\* A <= B, compared from the most significant limb down
RECURSIVE BigLeqFrom(_, _, _)
BigLeqFrom(A, B, i) ==
    IF i = 0 THEN TRUE
    ELSE IF A[i] # B[i] THEN A[i] < B[i] ELSE BigLeqFrom(A, B, i - 1)
BigLeq(A, B) == BigLeqFrom(A, B, Len(A))

\* the largest q in lo..hi with q * D <= X (lo satisfies it)
RECURSIVE FloorQuotient(_, _, _, _)
FloorQuotient(X, D, lo, hi) ==
    IF lo = hi THEN lo
    ELSE LET mid == (lo + hi + 1) \div 2
         IN  IF BigLeq(BigTimes(D, mid), X)
             THEN FloorQuotient(X, D, mid, hi)
             ELSE FloorQuotient(X, D, lo, mid - 1)

\* ssim_score, in permille rounded down.  With grey values 255*a and
\* 255*b over n rows, sa = sum a, sab = sum a*b, and c1 = (0.01*255)^2,
\* c2 = (0.03*255)^2, both factors of numerator and denominator are
\* multiplied by 10^4 * n^2 / 255^2:
\*   2*mu_a*mu_b + c1          ->  20000*sa*sb + n^2
\*   2*cov + c2                ->  20000*(n*sab - sa*sb) + 9*n^2
\*   mu_a^2 + mu_b^2 + c1      ->  10000*(sa^2 + sb^2) + n^2
\*   var_a + var_b + c2        ->  10000*(n*saa - sa^2 + n*sbb - sb^2) + 9*n^2
SsimScore(a, b) ==
    LET n   == Len(a)
        sa  == SumRows(a)
        sb  == SumRows(b)
        saa == DotRows(a, a)
        sbb == DotRows(b, b)
        sab == DotRows(a, b)
        n1  == 20000 * sa * sb + n * n
        n2  == 20000 * (n * sab - sa * sb) + 9 * n * n
        d1  == 10000 * (sa * sa + sb * sb) + n * n
        d2  == 10000 * (n * saa - sa * sa + n * sbb - sb * sb) + 9 * n * n
        D   == BigTimes(Limbs(d1, BigLen), d2)
        X   == BigTimes(BigTimes(Limbs(n1, BigLen), Abs(n2)), 1000)
        q   == FloorQuotient(X, D, 0, 1000)
    IN  IF n2 >= 0 THEN q
        ELSE IF BigTimes(D, q) = X THEN -q ELSE -(q + 1)

\* The pixel-difference score max(0, 1 - mean|a-b|/255) as an exact
\* fraction num/den, and its value in permille rounded down.
PixelScore(a, b) == [num |-> Len(a) - AbsDiffRows(a, b), den |-> Len(a)]
ScorePermille(score) == (1000 * score.num) \div score.den

\* Variant: an overlap that scores the same replaces the best so far.
ScoreGreater_OrEqual(x, y) == x.num * y.den >= y.num * x.den

\* "sim > best_similarity"
ScoreGreater(x, y) == x.num * y.den > y.num * x.den

\* _resize_gray: an image no wider than target_width keeps its rows; a
\* wider one is resampled to content the model does not look into.
ResizeGray(image, target_width) ==
    IF image.w <= target_width
    THEN Image(image.w, image.h, image.px)
    ELSE Image(target_width, Max(1, (image.h * target_width) \div image.w),
               Opaque)

\* similarity_score raises ValueError for arrays of different shapes: the
\* rows are cut to a common count, so the widths decide.
ShapeMismatch(prev_img, curr_img, c) ==
    ResizeGray(prev_img, c.downscale_width).w
        # ResizeGray(curr_img, c.downscale_width).w

\* similarity_score, in permille
SimilarityScore(a, b, use_ssim) ==
    IF use_ssim THEN SsimScore(a, b) ELSE ScorePermille(PixelScore(a, b))

\* "for overlap in range(min_overlap, max_overlap + 1, step)" with
\* "if sim > best_similarity": the first overlap of the highest score is
\* kept.  The best of a range is the best of its second half where that
\* is greater than the best of its first half, and the latter otherwise.
RECURSIVE BestOverlap(_, _, _, _, _, _)
BestOverlap(a, b, overlap, max_overlap, step, best) ==
    IF overlap > max_overlap THEN best
    ELSE IF overlap + step > max_overlap
         THEN LET sim == PixelScore(LastRows(a, overlap),
                                    FirstRows(b, overlap))
              IN  IF ScoreGreater(sim, best.similarity)
                  THEN [overlap |-> overlap, similarity |-> sim]
                  ELSE best
         ELSE LET count == (max_overlap - overlap) \div step + 1
                  mid == overlap + (count \div 2) * step
                  earlier == BestOverlap(a, b, overlap, mid - 1, step, best)
                  later == BestOverlap(a, b, mid, max_overlap, step, best)
              IN  IF ScoreGreater(later.similarity, earlier.similarity)
                  THEN later
                  ELSE earlier

\* estimate_scroll_motion: (motion_px, best_similarity)
EstimateScrollMotion(prev_img, curr_img, c) ==
    LET prev_small == ResizeGray(prev_img, c.downscale_width)
        curr_small == ResizeGray(curr_img, c.downscale_width)
        h == Min(prev_small.h, curr_small.h)
        a == FirstRows(prev_small.px, h)
        b == FirstRows(curr_small.px, h)
        min_overlap == Max(8, IntRatio(h, 550))
        max_overlap == h
        step == Max(1, h \div 240)
        best == BestOverlap(a, b, min_overlap, max_overlap, step,
                            [overlap |-> min_overlap,
                             similarity |-> [num |-> -2, den |-> 1]])
        \* int(best_overlap * (prev.height / prev_small.shape[0]))
        overlap_px == Max(1, (best.overlap * prev_img.h) \div prev_small.h)
    IN  [motion_px |-> Max(0, prev_img.h - overlap_px),
         similarity |-> ScorePermille(best.similarity)]

\* Variant: the estimated motion is not looked at.
LowMotionCandidate_IgnoresMotion(motion, c) ==
    motion.similarity >= c.low_motion_similarity

\* "overlap_similarity >= config.low_motion_similarity and
\*  motion_px <= config.low_motion_px"
LowMotionCandidate(motion, c) ==
    /\ motion.similarity >= c.low_motion_similarity
    /\ motion.motion_px <= c.low_motion_px

\* Variant: the full-frame rule is tried before the bottom/top rule.
DetectScrollTermination_FullFirst(prev_img, curr_img, c) ==
    LET arr_prev == ResizeGray(prev_img, c.downscale_width)
        arr_curr == ResizeGray(curr_img, c.downscale_width)
        h == Min(arr_prev.h, arr_curr.h)
        a == FirstRows(arr_prev.px, h)
        b == FirstRows(arr_curr.px, h)
        strip_h == Max(8, IntRatio(h, c.stop_region_ratio))
        prev_bottom == LastRows(a, strip_h)
        curr_top == FirstRows(b, strip_h)
        bottom_top_similarity ==
            SimilarityScore(prev_bottom, curr_top, c.use_ssim)
        full_similarity == SimilarityScore(a, b, c.use_ssim)
        motion == EstimateScrollMotion(prev_img, curr_img, c)
        low_motion_candidate == LowMotionCandidate(motion, c)
    IN  IF full_similarity >= Max(980, c.similarity_threshold - 10)
        THEN StopCheckResult(TRUE, FullFrameReason, bottom_top_similarity,
                             full_similarity, motion.motion_px,
                             motion.similarity, low_motion_candidate)
        ELSE IF bottom_top_similarity >= c.similarity_threshold
             THEN StopCheckResult(TRUE, BottomTopReason,
                                  bottom_top_similarity, full_similarity,
                                  motion.motion_px, motion.similarity,
                                  low_motion_candidate)
             ELSE StopCheckResult(FALSE, ContinueReason,
                                  bottom_top_similarity, full_similarity,
                                  motion.motion_px, motion.similarity,
                                  low_motion_candidate)

\* detect_scroll_termination on two frames whose rows are known
DetectScrollTermination(prev_img, curr_img, c) ==
    LET arr_prev == ResizeGray(prev_img, c.downscale_width)
        arr_curr == ResizeGray(curr_img, c.downscale_width)
        h == Min(arr_prev.h, arr_curr.h)
        a == FirstRows(arr_prev.px, h)
        b == FirstRows(arr_curr.px, h)
        strip_h == Max(8, IntRatio(h, c.stop_region_ratio))
        prev_bottom == LastRows(a, strip_h)
        curr_top == FirstRows(b, strip_h)
        bottom_top_similarity ==
            SimilarityScore(prev_bottom, curr_top, c.use_ssim)
        full_similarity == SimilarityScore(a, b, c.use_ssim)
        motion == EstimateScrollMotion(prev_img, curr_img, c)
        low_motion_candidate == LowMotionCandidate(motion, c)
    IN  IF bottom_top_similarity >= c.similarity_threshold
        THEN StopCheckResult(TRUE, BottomTopReason, bottom_top_similarity,
                             full_similarity, motion.motion_px,
                             motion.similarity, low_motion_candidate)
        ELSE IF full_similarity >= Max(980, c.similarity_threshold - 10)
             THEN StopCheckResult(TRUE, FullFrameReason,
                                  bottom_top_similarity, full_similarity,
                                  motion.motion_px, motion.similarity,
                                  low_motion_candidate)
             ELSE StopCheckResult(FALSE, ContinueReason,
                                  bottom_top_similarity, full_similarity,
                                  motion.motion_px, motion.similarity,
                                  low_motion_candidate)

\* What detect_scroll_termination returns to the engine: the computed
\* verdict when the rows of both frames are known, any verdict otherwise.
Verdicts(prev_img, curr_img, c) ==
    IF /\ ResizeGray(prev_img, c.downscale_width).px # Opaque
       /\ ResizeGray(curr_img, c.downscale_width).px # Opaque
    THEN {DetectScrollTermination(prev_img, curr_img, c)}
    ELSE DetectorOutcomes

OverlapResult(overlap_px, similarity) ==
    [overlap_px |-> overlap_px, similarity |-> similarity]

\* Variant: the search goes on to the full height.
FindBestOverlap_ToFullHeight(prev_img, curr_img, c) ==
    LET prev_small == ResizeGray(prev_img, c.downscale_width)
        curr_small == ResizeGray(curr_img, c.downscale_width)
        h == Min(prev_small.h, curr_small.h)
        a == FirstRows(prev_small.px, h)
        b == FirstRows(curr_small.px, h)
        min_overlap == Max(8, IntRatio(h, c.min_overlap_ratio))
        max_overlap == h
        step == Max(1, h \div 220)
        best == BestOverlap(a, b, min_overlap, max_overlap, step,
                            [overlap |-> min_overlap,
                             similarity |-> [num |-> -2, den |-> 1]])
    IN  OverlapResult(Max(1, (best.overlap * prev_img.h) \div prev_small.h),
                      ScorePermille(best.similarity))

\* find_best_overlap on two frames whose rows are known
FindBestOverlap(prev_img, curr_img, c) ==
    LET prev_small == ResizeGray(prev_img, c.downscale_width)
        curr_small == ResizeGray(curr_img, c.downscale_width)
        h == Min(prev_small.h, curr_small.h)
        a == FirstRows(prev_small.px, h)
        b == FirstRows(curr_small.px, h)
        min_overlap == Max(8, IntRatio(h, c.min_overlap_ratio))
        max_overlap == Min(h - 1, IntRatio(h, c.max_overlap_ratio))
        step == Max(1, h \div 220)
        best == BestOverlap(a, b, min_overlap, max_overlap, step,
                            [overlap |-> min_overlap,
                             similarity |-> [num |-> -2, den |-> 1]])
    IN  OverlapResult(Max(1, (best.overlap * prev_img.h) \div prev_small.h),
                      ScorePermille(best.similarity))

\* What find_best_overlap can return.  For frames whose content is not
\* looked into: the first or the last overlap of the searched range with a
\* similarity below, at or above overlap_min_similarity, and the initial
\* (min_overlap, -2.0) when the range is empty.
OverlapOutcomes(prev_img, curr_img, c) ==
    LET prev_small == ResizeGray(prev_img, c.downscale_width)
        curr_small == ResizeGray(curr_img, c.downscale_width)
        h == Min(prev_small.h, curr_small.h)
        min_overlap == Max(8, IntRatio(h, c.min_overlap_ratio))
        max_overlap == Min(h - 1, IntRatio(h, c.max_overlap_ratio))
        step == Max(1, h \div 220)
        last == min_overlap + step * ((max_overlap - min_overlap) \div step)
        Px(k) == Max(1, (k * prev_img.h) \div prev_small.h)
    IN  IF prev_small.px # Opaque /\ curr_small.px # Opaque
        THEN {FindBestOverlap(prev_img, curr_img, c)}
        ELSE IF min_overlap > max_overlap
             THEN {OverlapResult(Px(min_overlap), -2000)}
             ELSE {OverlapResult(Px(k), sim) :
                      k \in {min_overlap, last},
                      sim \in {0, c.overlap_min_similarity - 1,
                               c.overlap_min_similarity, 1000}}

\* Variant: the frames are stitched in their own sizes.
Normalized_KeepsSize(fs) == [i \in 1..Len(fs) |-> fs[i]]

\* "[frame.resize((base_w, base_h), BILINEAR) for frame in frames]"
Normalized(fs) == [i \in 1..Len(fs) |-> Resize(fs[i], fs[1])]

\* Variant: the previous frame is never advanced, every frame is compared
\* with the first.
OverlapChoices_AgainstFirst(fs, c) ==
    LET norm == Normalized(fs)
        all == UNION {OverlapOutcomes(norm[1], norm[i + 1], c) :
                         i \in 1..(Len(fs) - 1)}
    IN  {ov \in [1..(Len(fs) - 1) -> all] :
            \A i \in 1..(Len(fs) - 1) :
                ov[i] \in OverlapOutcomes(norm[1], norm[i + 1], c)}

\* the overlap results of the successive pairs of normalized frames
OverlapChoices(fs, c) ==
    LET norm == Normalized(fs)
        all == UNION {OverlapOutcomes(norm[i], norm[i + 1], c) :
                         i \in 1..(Len(fs) - 1)}
    IN  {ov \in [1..(Len(fs) - 1) -> all] :
            \A i \in 1..(Len(fs) - 1) :
                ov[i] \in OverlapOutcomes(norm[i], norm[i + 1], c)}

\* "min(max(overlap.overlap_px, 1), curr_arr.shape[0] - 1)"
CropStart(overlap, rows) == Min(Max(overlap.overlap_px, 1), rows - 1)

\* Variant: the strip is the rows before crop_start.
Strip_RowsBefore(frame, crop_start) ==
    [w |-> frame.w, from |-> 0, rows |-> crop_start]

\* the strip a frame contributes: its rows from crop_start on
Strip(frame, crop_start) ==
    [w |-> frame.w, from |-> crop_start, rows |-> frame.h - crop_start]

RECURSIVE SumStripRows(_)
SumStripRows(strips) ==
    IF strips = << >> THEN 0
    ELSE strips[1].rows + SumStripRows(Tail(strips))

\* Variant: an empty list gives an empty image.
StitchFrames_EmptyImage(fs, c, ov) ==
    IF fs = << >>
    THEN [ok |-> TRUE, error |-> "", w |-> 0, h |-> 0, parts |-> << >>]
    ELSE LET norm == Normalized(fs)
             strips == [i \in 1..Len(fs) |->
                          IF i = 1 THEN Strip(norm[1], 0)
                          ELSE IF ov[i - 1].similarity
                                     < c.overlap_min_similarity
                               THEN Strip(norm[i], 0)
                               ELSE Strip(norm[i],
                                          CropStart(ov[i - 1], norm[i].h))]
         IN  \* np.vstack raises ValueError for strips of different widths
             IF \E i \in 1..Len(fs) : strips[i].w # strips[1].w
             THEN [ok |-> FALSE, error |-> "invalid-argument", w |-> 0,
                   h |-> 0, parts |-> << >>]
             ELSE [ok |-> TRUE, error |-> "", w |-> strips[1].w,
                   h |-> SumStripRows(strips), parts |-> strips]

\* stitch_frames, given the overlap found for each successive pair
StitchFrames(fs, c, ov) ==
    IF fs = << >>
    THEN [ok |-> FALSE, error |-> "invalid-argument", w |-> 0, h |-> 0,
          parts |-> << >>]
    ELSE LET norm == Normalized(fs)
             strips == [i \in 1..Len(fs) |->
                          IF i = 1 THEN Strip(norm[1], 0)
                          ELSE IF ov[i - 1].similarity
                                     < c.overlap_min_similarity
                               THEN Strip(norm[i], 0)
                               ELSE Strip(norm[i],
                                          CropStart(ov[i - 1], norm[i].h))]
         IN  \* np.vstack raises ValueError for strips of different widths
             IF \E i \in 1..Len(fs) : strips[i].w # strips[1].w
             THEN [ok |-> FALSE, error |-> "invalid-argument", w |-> 0,
                   h |-> 0, parts |-> << >>]
             ELSE [ok |-> TRUE, error |-> "", w |-> strips[1].w,
                   h |-> SumStripRows(strips), parts |-> strips]

(***************************************************************************)
(* Device resolution.                                                      *)
(***************************************************************************)
InSeq(x, s) == \E i \in 1..Len(s) : s[i] = x

\* Variant: the number of online devices is checked before the preference.
ResolveSerial_CountFirst(preferred, serials) ==
    IF Len(serials) = 0
    THEN [ok |-> FALSE, serial |-> "", error |-> "device-not-found"]
    ELSE IF Len(serials) > 1
         THEN [ok |-> FALSE, serial |-> "", error |-> "multiple-devices"]
         ELSE IF preferred # "" /\ ~InSeq(preferred, serials)
              THEN [ok |-> FALSE, serial |-> "", error |-> "device-not-found"]
              ELSE [ok |-> TRUE, serial |-> serials[1], error |-> ""]

\* _resolve_serial: the serial to use, or the kind of error raised.
\* An empty string is Python's falsy preferred serial (None or "").
ResolveSerial(preferred, serials) ==
    IF preferred # ""
    THEN IF ~InSeq(preferred, serials)
         THEN [ok |-> FALSE, serial |-> "", error |-> "device-not-found"]
         ELSE [ok |-> TRUE, serial |-> preferred, error |-> ""]
    ELSE IF Len(serials) = 0
         THEN [ok |-> FALSE, serial |-> "", error |-> "device-not-found"]
         ELSE IF Len(serials) > 1
              THEN [ok |-> FALSE, serial |-> "", error |-> "multiple-devices"]
              ELSE [ok |-> TRUE, serial |-> serials[1], error |-> ""]

(***************************************************************************)
(* Loop conditions of capture().                                           *)
(***************************************************************************)
\* Variant: the loop bound is off by one.
LoopHasNext_OffByOne(i, c) == i <= c.max_swipes

\* "for idx in range(config.max_swipes)" has another iteration
LoopHasNext(i, c) == i < c.max_swipes

\* Variant: the flag is never looked at.
CancelObserved_Never(ev, flag) == FALSE

\* "stop_event and stop_event.is_set()"
CancelObserved(ev, flag) == ev /\ flag

\* Variant: one more hit is needed.
LowMotionLimit_OneMore(hits, c) == hits > c.low_motion_consecutive

\* "low_motion_hits >= config.low_motion_consecutive"
LowMotionLimit(hits, c) == hits >= c.low_motion_consecutive

\* Numbers of swipe and screenshot calls the bridge has received.
CountCalls(op) == Cardinality({i \in 1..Len(calls) : calls[i].op = op})
SwipeCalls == CountCalls("swipe")
ShotCalls == CountCalls("capture_screen")

NotSet == [pc |-> "", idx |-> 0, swipes |-> 0, shots |-> 0]

(***************************************************************************)
(* Initial states: capture() is about to be called.                        *)
(***************************************************************************)
\* What the bridge may hand back as a screenshot: a full-size screen whose
\* content is not looked into, or a small screen of known rows that is
\* scrolled by one row or blank.
Screens == {Image(sz.w, sz.h, Opaque) : sz \in FrameSizes}
PatternScreens ==
    {Image(64, 9, <<0, 1, 1, 0, 1, 0, 0, 0, 1>>),
     Image(64, 9, <<1, 1, 0, 1, 0, 0, 0, 1, 1>>),
     Image(64, 9, <<0, 0, 0, 0, 0, 0, 0, 0, 0>>)}

Serials == {"", "A", "B"}
OnlineLists == {<< >>, <<"A">>, <<"A", "B">>}

EngineConfigs ==
    {[DefaultConfig EXCEPT !.max_swipes = m, !.low_motion_consecutive = n,
                           !.scroll_delay_ms = d, !.serial = s] :
        m \in 0..MaxSwipes, n \in 0..MaxConsecutive,
        d \in {-1, 0} \cup {70 * k : k \in 1..MaxDelaySlices}, s \in Serials}

\* Configs that set the swipe fields: both modes, overrides given or not
\* (0 is an override), the default duration or another one.
SwipeConfigs ==
    {[DefaultConfig EXCEPT !.simple_mode = m, !.swipe_x1 = o.x1,
                           !.swipe_y1 = o.y1, !.swipe_x2 = o.x2,
                           !.swipe_y2 = o.y2, !.swipe_duration_ms = d,
                           !.max_swipes = 2, !.scroll_delay_ms = 0] :
        m \in BOOLEAN, d \in {300, 450},
        o \in {[x1 |-> NoneInt, y1 |-> NoneInt, x2 |-> NoneInt, y2 |-> NoneInt],
               [x1 |-> 10, y1 |-> 0, x2 |-> NoneInt, y2 |-> 20]}}

\* WearCaptureApp.__init__ and _build_ui: an empty queue, no worker, no stop
\* event, the start button enabled and the stop button disabled.  Threads
\* and Events are numbered by the start that created them, 0 is None;
\* is_set holds the Events that are set, puts is the history of every
\* queue.put, dialog the last message box shown.
AppAtStart ==
    [event_queue |-> << >>, worker |-> 0, stop_event |-> 0,
     current_max_swipes |-> 24, start_button |-> TRUE, stop_button |-> FALSE,
     status_label |-> "Idle", dialog |-> "", created |-> 0,
     threads |-> [k \in 1..MaxStarts |->
                     [pc |-> "unstarted", stop_event |-> 0, emitted |-> 0,
                      outcome |-> ""]],
     is_set |-> {},
     puts |-> << >>]

inputs == <<config, stop_event, progress_fn, adb>>
\* state of the operations that are exercised outside a capture run
aux == <<stitched, store, upserts, suggested, imported, overlaps, app>>
loopState == <<frames, first, swipe, prev, curr, stop, stop_reason,
               performed_swipes, low_motion_hits, idx, remaining>>

\* The state of a run before capture() has executed anything.
InitRun ==
    /\ cancel = FALSE
    /\ cancel_at = NotSet
    /\ pc = "validate"
    /\ serial = ""
    /\ frames = << >>
    /\ first = NoFrame
    /\ swipe = NoSwipe
    /\ prev = NoFrame
    /\ curr = NoFrame
    /\ stop = NoStop
    /\ stop_reason = ""
    /\ performed_swipes = 0
    /\ low_motion_hits = 0
    /\ idx = 0
    /\ remaining = 0
    /\ calls = << >>
    /\ events = << >>
    /\ logs = 0
    /\ written = FALSE
    /\ result = NoResult
    /\ error = ""
    /\ verdicts = << >>
    /\ screenshots = << >>

\* The operations outside the capture run have not been used.
InitAux ==
    /\ stitched = NoStitch
    /\ store = << >>
    /\ upserts = << >>
    /\ suggested = << >>
    /\ imported = << >>
    /\ overlaps = << >>
    /\ app = AppAtStart

Init ==
    /\ config \in EngineConfigs \cup SwipeConfigs
    /\ stop_event \in BOOLEAN
    /\ progress_fn \in BOOLEAN
    /\ adb \in [available : BOOLEAN, online : OnlineLists,
                 screens : {Screens, PatternScreens}]
    /\ InitRun
    /\ InitAux

(***************************************************************************)
(* The steps of WearCaptureEngine.capture.                                 *)
(***************************************************************************)
\* Variant: the bridge is probed before the config is validated.
DoValidate_AfterProbe ==
    /\ pc = "validate"
    /\ calls' = Append(calls, Call("is_available", "", NoSwipe))
    /\ IF ~adb.available
       THEN pc' = "raised" /\ error' = "bridge-unavailable"
       ELSE IF Validate(config)
            THEN pc' = "resolve" /\ error' = error
            ELSE pc' = "raised" /\ error' = "invalid-config"
    /\ UNCHANGED <<aux, screenshots, verdicts, inputs, cancel, cancel_at, serial, loopState, events, logs,
                   written, result>>

\* config.validate()
DoValidate ==
    /\ pc = "validate"
    /\ IF Validate(config)
       THEN pc' = "is_available" /\ error' = error
       ELSE pc' = "raised" /\ error' = "invalid-config"
    /\ UNCHANGED <<aux, screenshots, verdicts, inputs, cancel, cancel_at, serial, loopState, calls, events, logs,
                   written, result>>

\* Variant: the bridge is asked but the answer is not acted on.
DoIsAvailable_NotChecked ==
    /\ pc = "is_available"
    /\ calls' = Append(calls, Call("is_available", "", NoSwipe))
    /\ pc' = "resolve" /\ error' = error
    /\ UNCHANGED <<aux, screenshots, verdicts, inputs, cancel, cancel_at, serial, loopState, events, logs, written,
                   result>>

\* if not self.adb.is_available(): raise RuntimeError
DoIsAvailable ==
    /\ pc = "is_available"
    /\ calls' = Append(calls, Call("is_available", "", NoSwipe))
    /\ IF adb.available
       THEN pc' = "resolve" /\ error' = error
       ELSE pc' = "raised" /\ error' = "bridge-unavailable"
    /\ UNCHANGED <<aux, screenshots, verdicts, inputs, cancel, cancel_at, serial, loopState, events, logs, written,
                   result>>

\* Variant: capture asks again until a device can be resolved.
DoResolveSerial_WaitsForDevice ==
    /\ pc = "resolve"
    /\ LET r == ResolveSerial(config.serial, adb.online) IN
       IF r.ok
       THEN /\ calls' = Append(calls, Call("list_online_device_serials", "",
                                          NoSwipe))
            /\ serial' = r.serial
            /\ logs' = logs + 1
            /\ pc' = "initial" /\ error' = error
       ELSE UNCHANGED <<calls, pc, error, serial, logs>>
    /\ UNCHANGED <<aux, screenshots, verdicts, inputs, cancel, cancel_at, loopState, events, written, result>>

\* serial = self._resolve_serial(config.serial); the bridge query itself
\* may fail (AdbClient._run raises)
DoResolveSerial ==
    /\ pc = "resolve"
    /\ calls' = Append(calls, Call("list_online_device_serials", "", NoSwipe))
    /\ \E fails \in BOOLEAN :
         IF fails
         THEN /\ pc' = "raised" /\ error' = "capture-failed"
              /\ UNCHANGED <<serial, logs>>
         ELSE LET r == ResolveSerial(config.serial, adb.online) IN
              IF r.ok
              THEN /\ serial' = r.serial
                   /\ logs' = logs + 1
                   /\ pc' = "initial" /\ error' = error
              ELSE /\ pc' = "raised" /\ error' = r.error
                   /\ UNCHANGED <<serial, logs>>
    /\ UNCHANGED <<aux, screenshots, verdicts, inputs, cancel, cancel_at, loopState, events, written, result>>

\* Variant: the loop starts without a stop reason.
DoInitialCapture_NoReason ==
    /\ pc = "initial"
    /\ calls' = Append(calls, Call("capture_screen", serial, NoSwipe))
    /\ \/ /\ pc' = "raised" /\ error' = "capture-failed"
          /\ UNCHANGED <<loopState, events, logs, screenshots>>
       \/ \E size \in adb.screens :
            LET f == Frame(size, 1) IN
            /\ first' = f
            /\ screenshots' = <<[w |-> size.w, h |-> size.h]>>
            /\ frames' = <<f>>
            /\ events' = EmitProgress(events, progress_fn,
                            CaptureProgress("initial", 0, 1, config.max_swipes))
            /\ swipe' = IF config.simple_mode
                        THEN AutoSwipeSpec(f)
                        ELSE AdvancedSwipeSpec(config, f)
            /\ logs' = logs + 2
            /\ prev' = f
            /\ stop_reason' = ""
            /\ performed_swipes' = 0
            /\ low_motion_hits' = 0
            /\ idx' = 0
            /\ pc' = "loop_top" /\ error' = error
            /\ UNCHANGED <<curr, stop, remaining>>
    /\ UNCHANGED <<aux, verdicts, inputs, cancel, cancel_at, serial, written, result>>

\* first = self.adb.capture_screen(serial) ... low_motion_hits = 0
DoInitialCapture ==
    /\ pc = "initial"
    /\ calls' = Append(calls, Call("capture_screen", serial, NoSwipe))
    /\ \/ /\ pc' = "raised" /\ error' = "capture-failed"
          /\ UNCHANGED <<loopState, events, logs, screenshots>>
       \/ \E size \in adb.screens :
            LET f == Frame(size, 1) IN
            /\ first' = f
            /\ screenshots' = <<[w |-> size.w, h |-> size.h]>>
            /\ frames' = <<f>>
            /\ events' = EmitProgress(events, progress_fn,
                            CaptureProgress("initial", 0, 1, config.max_swipes))
            /\ swipe' = IF config.simple_mode
                        THEN AutoSwipeSpec(f)
                        ELSE AdvancedSwipeSpec(config, f)
            /\ logs' = logs + 2
            /\ prev' = f
            /\ stop_reason' = MaxSwipesReached
            /\ performed_swipes' = 0
            /\ low_motion_hits' = 0
            /\ idx' = 0
            /\ pc' = "loop_top" /\ error' = error
            /\ UNCHANGED <<curr, stop, remaining>>
    /\ UNCHANGED <<aux, verdicts, inputs, cancel, cancel_at, serial, written, result>>

\* Variant: cancellation is reported by raising instead of breaking.
StopOnCancel_Raises(buffer) ==
    /\ stop_reason' = UserStop
    /\ logs' = logs + 1
    /\ events' = events
    /\ pc' = "raised"

\* Leaving the loop on the cancel flag: reason, log line, 'stopping' event.
StopOnCancel(buffer) ==
    /\ stop_reason' = UserStop
    /\ logs' = logs + 1
    /\ events' = EmitProgress(events, progress_fn,
                    CaptureProgress("stopping", performed_swipes, Len(buffer),
                                    config.max_swipes))
    /\ pc' = "stitch"

\* Variant: the first iteration is entered without looking at the flag.
LoopTop_FirstUnchecked ==
    /\ pc = "loop_top"
    /\ IF ~LoopHasNext(idx, config)
       THEN /\ pc' = "stitch"
            /\ UNCHANGED <<stop_reason, logs, events>>
       ELSE IF idx > 0 /\ CancelObserved(stop_event, cancel)
            THEN StopOnCancel(frames)
            ELSE /\ pc' = "swipe"
                 /\ UNCHANGED <<stop_reason, logs, events>>
    /\ UNCHANGED <<aux, screenshots, verdicts, inputs, cancel, cancel_at, serial, frames, first, swipe, prev, curr,
                   stop, performed_swipes, low_motion_hits, idx, remaining,
                   calls, written, result, error>>

\* head of "for idx in range(config.max_swipes)" and the first checkpoint
LoopTop ==
    /\ pc = "loop_top"
    /\ IF ~LoopHasNext(idx, config)
       THEN /\ pc' = "stitch"
            /\ UNCHANGED <<stop_reason, logs, events>>
       ELSE IF CancelObserved(stop_event, cancel)
            THEN StopOnCancel(frames)
            ELSE /\ pc' = "swipe"
                 /\ UNCHANGED <<stop_reason, logs, events>>
    /\ UNCHANGED <<aux, screenshots, verdicts, inputs, cancel, cancel_at, serial, frames, first, swipe, prev, curr,
                   stop, performed_swipes, low_motion_hits, idx, remaining,
                   calls, written, result, error>>

\* Variant: a swipe that finds the flag set is given up.
DoSwipe_GivesUpOnCancel ==
    /\ pc = "swipe"
    /\ IF cancel
       THEN /\ pc' = "stitch"
            /\ UNCHANGED <<calls, performed_swipes, remaining, error>>
       ELSE /\ calls' = Append(calls, Call("swipe", serial, swipe))
            /\ \/ /\ pc' = "raised" /\ error' = "capture-failed"
                  /\ UNCHANGED <<performed_swipes, remaining>>
               \/ /\ performed_swipes' = performed_swipes + 1
                  /\ remaining' = config.scroll_delay_ms
                  /\ pc' = "sleep" /\ error' = error
    /\ UNCHANGED <<aux, screenshots, verdicts, inputs, cancel, cancel_at, serial, frames, first, swipe, prev, curr,
                   stop, stop_reason, low_motion_hits, idx, events, logs,
                   written, result>>

\* self.adb.swipe(...); performed_swipes += 1
DoSwipe ==
    /\ pc = "swipe"
    /\ calls' = Append(calls, Call("swipe", serial, swipe))
    /\ \/ /\ pc' = "raised" /\ error' = "capture-failed"
          /\ UNCHANGED <<performed_swipes, remaining>>
       \/ /\ performed_swipes' = performed_swipes + 1
          /\ remaining' = config.scroll_delay_ms
          /\ pc' = "sleep" /\ error' = error
    /\ UNCHANGED <<aux, screenshots, verdicts, inputs, cancel, cancel_at, serial, frames, first, swipe, prev, curr,
                   stop, stop_reason, low_motion_hits, idx, events, logs,
                   written, result>>

\* Variant: a slice is slept before the flag is looked at.
SleepWithCancel_SleepsFirst ==
    /\ pc = "sleep"
    /\ IF config.scroll_delay_ms <= 0 \/ ~stop_event
       THEN /\ pc' = "capture"
            /\ UNCHANGED <<remaining, stop_reason, logs, events>>
       ELSE IF remaining > 0
            THEN /\ remaining' = remaining - Min(SleepSliceMs, remaining)
                 /\ UNCHANGED <<pc, stop_reason, logs, events>>
            ELSE IF cancel
                 THEN StopOnCancel(frames) /\ UNCHANGED remaining
                 ELSE /\ pc' = "capture"
                      /\ UNCHANGED <<remaining, stop_reason, logs, events>>
    /\ UNCHANGED <<aux, screenshots, verdicts, inputs, cancel, cancel_at, serial, frames, first, swipe, prev, curr,
                   stop, performed_swipes, low_motion_hits, idx, calls,
                   written, result, error>>

\* canceled_during_delay = self._sleep_with_cancel(scroll_delay_ms, stop_event)
\* one step per poll of the flag
SleepWithCancel ==
    /\ pc = "sleep"
    /\ IF config.scroll_delay_ms <= 0 \/ ~stop_event
       THEN /\ pc' = "capture"
            /\ UNCHANGED <<remaining, stop_reason, logs, events>>
       ELSE IF remaining > 0
            THEN IF cancel
                 THEN StopOnCancel(frames) /\ UNCHANGED remaining
                 ELSE /\ remaining' = remaining - Min(SleepSliceMs, remaining)
                      /\ UNCHANGED <<pc, stop_reason, logs, events>>
            ELSE IF cancel
                 THEN StopOnCancel(frames) /\ UNCHANGED remaining
                 ELSE /\ pc' = "capture"
                      /\ UNCHANGED <<remaining, stop_reason, logs, events>>
    /\ UNCHANGED <<aux, screenshots, verdicts, inputs, cancel, cancel_at, serial, frames, first, swipe, prev, curr,
                   stop, performed_swipes, low_motion_hits, idx, calls,
                   written, result, error>>

\* Variant: a failed screenshot saves the partial buffer before re-raising.
DoCapture_SavesOnFailure ==
    /\ pc = "capture"
    /\ calls' = Append(calls, Call("capture_screen", serial, NoSwipe))
    /\ \/ /\ pc' = "raised" /\ error' = "capture-failed"
          /\ written' = TRUE
          /\ UNCHANGED <<curr, screenshots>>
       \/ \E size \in adb.screens :
            LET shot == Frame(size, performed_swipes + 1) IN
            /\ curr' = IF ~SameSize(size, first)
                       THEN Resize(shot, first)
                       ELSE shot
            /\ screenshots' = Append(screenshots, [w |-> size.w, h |-> size.h])
            /\ pc' = "after_capture" /\ error' = error
            /\ UNCHANGED written
    /\ UNCHANGED <<aux, verdicts, inputs, cancel, cancel_at, serial, frames, first, swipe, prev, stop,
                   stop_reason, performed_swipes, low_motion_hits, idx,
                   remaining, events, logs, result>>

\* curr = self.adb.capture_screen(serial); resize to first.size if different
DoCapture ==
    /\ pc = "capture"
    /\ calls' = Append(calls, Call("capture_screen", serial, NoSwipe))
    /\ \/ /\ pc' = "raised" /\ error' = "capture-failed"
          /\ UNCHANGED <<curr, screenshots>>
       \/ \E size \in adb.screens :
            LET shot == Frame(size, performed_swipes + 1) IN
            /\ curr' = IF ~SameSize(size, first)
                       THEN Resize(shot, first)
                       ELSE shot
            /\ screenshots' = Append(screenshots, [w |-> size.w, h |-> size.h])
            /\ pc' = "after_capture" /\ error' = error
    /\ UNCHANGED <<aux, verdicts, inputs, cancel, cancel_at, serial, frames, first, swipe, prev, stop,
                   stop_reason, performed_swipes, low_motion_hits, idx,
                   remaining, events, logs, written, result>>

\* Variant: the frame of a cancelled iteration is dropped.
AfterCapture_DropsFrame ==
    /\ pc = "after_capture"
    /\ IF CancelObserved(stop_event, cancel)
       THEN /\ frames' = frames
            /\ StopOnCancel(frames')
            /\ UNCHANGED <<stop, verdicts>>
       ELSE /\ \E outcome \in Verdicts(prev, curr, config) : stop' = outcome
            /\ verdicts' = Append(verdicts, stop')
            /\ logs' = logs + 1
            /\ events' = EmitProgress(events, progress_fn,
                            CaptureProgress("iteration", performed_swipes,
                                            Len(frames) + 1, config.max_swipes))
            /\ pc' = "decide"
            /\ UNCHANGED <<frames, stop_reason>>
    /\ UNCHANGED <<aux, screenshots, inputs, cancel, cancel_at, serial, first, swipe, prev, curr,
                   performed_swipes, low_motion_hits, idx, remaining, calls,
                   written, result, error>>

\* third checkpoint, else detect_scroll_termination and the 'iteration' event
AfterCapture ==
    /\ pc = "after_capture"
    /\ IF CancelObserved(stop_event, cancel)
       THEN /\ frames' = Append(frames, curr)
            /\ StopOnCancel(frames')
            /\ UNCHANGED <<stop, verdicts>>
       ELSE /\ \E outcome \in Verdicts(prev, curr, config) : stop' = outcome
            /\ verdicts' = Append(verdicts, stop')
            /\ logs' = logs + 1
            /\ events' = EmitProgress(events, progress_fn,
                            CaptureProgress("iteration", performed_swipes,
                                            Len(frames) + 1, config.max_swipes))
            /\ pc' = "decide"
            /\ UNCHANGED <<frames, stop_reason>>
    /\ UNCHANGED <<aux, screenshots, inputs, cancel, cancel_at, serial, first, swipe, prev, curr,
                   performed_swipes, low_motion_hits, idx, remaining, calls,
                   written, result, error>>

\* Variant: the 'stopping' event is emitted but the break is missing.
StopWith_NoBreak(reason) ==
    /\ stop_reason' = reason
    /\ events' = EmitProgress(events, progress_fn,
                    CaptureProgress("stopping", performed_swipes, Len(frames),
                                    config.max_swipes))
    /\ pc' = "loop_top"
    /\ idx' = idx + 1
    /\ UNCHANGED <<frames, prev>>

\* Leaving the loop on a detector or low-motion stop.
StopWith(reason) ==
    /\ stop_reason' = reason
    /\ events' = EmitProgress(events, progress_fn,
                    CaptureProgress("stopping", performed_swipes, Len(frames),
                                    config.max_swipes))
    /\ pc' = "stitch"
    /\ UNCHANGED <<frames, prev, idx>>

\* Variant: the frame is appended but the detector keeps its old reference.
Accept_KeepsPrev ==
    /\ frames' = Append(frames, curr)
    /\ prev' = prev
    /\ idx' = idx + 1
    /\ pc' = "loop_top"
    /\ UNCHANGED <<stop_reason, events>>

\* frames.append(curr); prev = curr; next idx
Accept ==
    /\ frames' = Append(frames, curr)
    /\ prev' = curr
    /\ idx' = idx + 1
    /\ pc' = "loop_top"
    /\ UNCHANGED <<stop_reason, events>>

\* Variant: the frame of a detector stop is appended before leaving.
Decide_AppendsOnStop ==
    /\ pc = "decide"
    /\ IF stop.should_stop
       THEN /\ stop_reason' = stop.reason
            /\ events' = EmitProgress(events, progress_fn,
                            CaptureProgress("stopping", performed_swipes,
                                            Len(frames), config.max_swipes))
            /\ pc' = "stitch"
            /\ frames' = Append(frames, curr)
            /\ UNCHANGED <<prev, idx>>
            /\ logs' = logs + 1
            /\ UNCHANGED low_motion_hits
       ELSE IF stop.low_motion_candidate
            THEN /\ low_motion_hits' = low_motion_hits + 1
                 /\ IF LowMotionLimit(low_motion_hits', config)
                    THEN StopWith(LowMotionReason) /\ logs' = logs + 2
                    ELSE Accept /\ logs' = logs + 1
            ELSE /\ low_motion_hits' = 0
                 /\ Accept
                 /\ UNCHANGED logs
    /\ UNCHANGED <<aux, screenshots, verdicts, inputs, cancel, cancel_at, serial, first, swipe, curr, stop,
                   performed_swipes, remaining, calls, written, result, error>>

\* "if stop.should_stop ... prev = curr": the rest of the loop body
Decide ==
    /\ pc = "decide"
    /\ IF stop.should_stop
       THEN /\ StopWith(stop.reason)
            /\ logs' = logs + 1
            /\ UNCHANGED low_motion_hits
       ELSE IF stop.low_motion_candidate
            THEN /\ low_motion_hits' = low_motion_hits + 1
                 /\ IF LowMotionLimit(low_motion_hits', config)
                    THEN StopWith(LowMotionReason) /\ logs' = logs + 2
                    ELSE Accept /\ logs' = logs + 1
            ELSE /\ low_motion_hits' = 0
                 /\ Accept
                 /\ UNCHANGED logs
    /\ UNCHANGED <<aux, screenshots, verdicts, inputs, cancel, cancel_at, serial, first, swipe, curr, stop,
                   performed_swipes, remaining, calls, written, result, error>>

\* Variant: the 'complete' event counts one frame more than the buffer has.
StitchAndSave_CountsOneMore ==
    /\ pc = "stitch"
    /\ IF Len(frames) = 0
       THEN /\ pc' = "raised" /\ error' = "invalid-argument"
            /\ UNCHANGED <<written, logs, events>>
       ELSE /\ written' = TRUE
            /\ logs' = logs + 1
            /\ events' = EmitProgress(events, progress_fn,
                            CaptureProgress("complete", performed_swipes,
                                            Len(frames) + 1, config.max_swipes))
            /\ pc' = "return" /\ error' = error
    /\ UNCHANGED <<aux, screenshots, verdicts, inputs, cancel, cancel_at, serial, loopState, calls, result>>

\* stitch_frames, optional mask, mkdir, save, log, 'complete' event
StitchAndSave ==
    /\ pc = "stitch"
    /\ IF Len(frames) = 0
       THEN /\ pc' = "raised" /\ error' = "invalid-argument"
            /\ UNCHANGED <<written, logs, events>>
       ELSE /\ written' = TRUE
            /\ logs' = logs + 1
            /\ events' = EmitProgress(events, progress_fn,
                            CaptureProgress("complete", performed_swipes,
                                            Len(frames), config.max_swipes))
            /\ pc' = "return" /\ error' = error
    /\ UNCHANGED <<aux, screenshots, verdicts, inputs, cancel, cancel_at, serial, loopState, calls, result>>

\* Variant: frames_captured is derived from the swipe counter.
Return_CountsSwipes ==
    /\ pc = "return"
    /\ result' = CaptureResult(config.output_path, serial, performed_swipes,
                               performed_swipes, stop_reason)
    /\ pc' = "done"
    /\ UNCHANGED <<aux, screenshots, verdicts, inputs, cancel, cancel_at, serial, loopState, calls, events, logs,
                   written, error>>

\* return CaptureResult(...)
Return ==
    /\ pc = "return"
    /\ result' = CaptureResult(config.output_path, serial, Len(frames),
                               performed_swipes, stop_reason)
    /\ pc' = "done"
    /\ UNCHANGED <<aux, screenshots, verdicts, inputs, cancel, cancel_at, serial, loopState, calls, events, logs,
                   written, error>>

\* another thread calls stop_event.set() while capture() runs
SetCancel ==
    /\ stop_event
    /\ ~cancel
    /\ pc \notin {"done", "raised"}
    /\ cancel' = TRUE
    /\ cancel_at' = [pc |-> pc, idx |-> idx, swipes |-> SwipeCalls,
                     shots |-> ShotCalls]
    /\ UNCHANGED <<aux, screenshots, verdicts, inputs, pc, serial, loopState, calls, events, logs,
                   written, result, error>>

Engine ==
    \/ DoValidate
    \/ DoIsAvailable
    \/ DoResolveSerial
    \/ DoInitialCapture
    \/ LoopTop
    \/ DoSwipe
    \/ SleepWithCancel
    \/ DoCapture
    \/ AfterCapture
    \/ Decide
    \/ StitchAndSave
    \/ Return

Next == Engine \/ SetCancel

Spec == Init /\ [][Next]_vars

\* The engine thread keeps running until capture() returns or raises.  The
\* runs start from the configs that vary the loop's limits, on a device whose
\* frames are not looked into: which frame a screenshot returns has no part
\* in whether the thread goes on.
InitFair ==
    /\ config \in EngineConfigs
    /\ stop_event \in BOOLEAN
    /\ progress_fn \in BOOLEAN
    /\ adb \in [available : BOOLEAN, online : OnlineLists, screens : {Screens}]
    /\ InitRun
    /\ InitAux

FairSpec == InitFair /\ [][Next]_vars /\ WF_vars(Engine)

(***************************************************************************)
(* Validation on its own: validate() applied to configs that leave the     *)
(* defaults in at most two fields.                                         *)
(***************************************************************************)
ValidatedFields ==
    {"max_swipes", "similarity_threshold", "low_motion_px",
     "low_motion_similarity", "low_motion_consecutive", "stop_region_ratio",
     "min_overlap_ratio", "max_overlap_ratio", "overlap_min_similarity",
     "downscale_width", "swipe_duration_ms", "scroll_delay_ms", "output_path"}

FieldValues(f) ==
    CASE f = "max_swipes" -> {0, 1, 30}
      [] f = "similarity_threshold" -> {-1, 0, 1000, 1001}
      [] f = "low_motion_px" -> {-1, 0, 200, 201}
      [] f = "low_motion_similarity" -> {-1, 0, 1000, 1001}
      [] f = "low_motion_consecutive" -> {0, 1, 2}
      [] f = "stop_region_ratio" -> {0, 1, 999, 1000}
      [] f = "min_overlap_ratio" -> {0, 1, 920, 999, 1000}
      [] f = "max_overlap_ratio" -> {0, 80, 81, 999, 1000}
      [] f = "overlap_min_similarity" -> {-1, 0, 1000, 1001}
      [] f = "downscale_width" -> {63, 64}
      [] f = "swipe_duration_ms" -> {-1, 0}
      [] f = "scroll_delay_ms" -> {-1, 0}
      [] f = "output_path" -> {"", "out.png"}

ValidateConfigs ==
    UNION {{[[DefaultConfig EXCEPT ![f] = v] EXCEPT ![g] = u] :
              v \in FieldValues(f), u \in FieldValues(g)} :
           <<f, g>> \in ValidatedFields \X ValidatedFields}

InitValidate ==
    /\ config \in ValidateConfigs
    /\ stop_event = FALSE
    /\ progress_fn = FALSE
    /\ adb = [available |-> TRUE, online |-> <<"A">>, screens |-> Screens]
    /\ InitRun
    /\ InitAux

SpecValidate == InitValidate /\ [][DoValidate]_vars

(***************************************************************************)
(* The stop detector on its own: detect_scroll_termination applied to a    *)
(* frame and to what may follow it on the screen.                          *)
(***************************************************************************)
MaxHeight == 9
NarrowWidth == 48
PlainWidth == 64

\* every frame of up to MaxHeight rows
DetectFrames ==
    UNION {{Frame(Image(PlainWidth, h, px), 0) : px \in [1..h -> {0, 1}]} :
           h \in 1..MaxHeight}

\* the screen scrolled up by s rows, rows of one value coming in below
Scroll(f, s, fill) ==
    [f EXCEPT !.px = RowsFrom(f.px, s) \o [i \in 1..s |-> fill]]

\* What the detector may be handed after f: f again, f scrolled, a taller
\* screenshot, a narrower one.
Successors(f) ==
    {f} \cup {Scroll(f, s, fill) : s \in 1..f.h, fill \in {0, 1}}
        \cup {[f EXCEPT !.h = @ + 1, !.px = Append(@, fill)] : fill \in {0, 1}}
        \cup {[f EXCEPT !.w = NarrowWidth]}

\* Thresholds of the stop rules and of the low-motion flag: the defaults,
\* a lower stop threshold, a low-motion flag that asks for no motion at all
\* and for less similarity than the stop rules do.
DetectConfigs ==
    {[DefaultConfig EXCEPT !.use_ssim = u,
                           !.similarity_threshold = t.stop,
                           !.low_motion_similarity = t.similarity,
                           !.low_motion_px = t.px] :
        u \in BOOLEAN,
        t \in {[stop |-> 800, similarity |-> 930, px |-> 20],
               [stop |-> 995, similarity |-> 930, px |-> 20],
               [stop |-> 995, similarity |-> 800, px |-> 0]}}

InitDetect ==
    /\ config \in DetectConfigs
    /\ prev \in DetectFrames
    /\ curr \in Successors(prev)
    /\ pc = "detect"
    /\ stop_event = FALSE
    /\ progress_fn = FALSE
    /\ adb = [available |-> TRUE, online |-> <<"A">>, screens |-> Screens]
    /\ cancel = FALSE
    /\ cancel_at = NotSet
    /\ serial = ""
    /\ frames = << >>
    /\ first = NoFrame
    /\ swipe = NoSwipe
    /\ stop = NoStop
    /\ stop_reason = ""
    /\ performed_swipes = 0
    /\ low_motion_hits = 0
    /\ idx = 0
    /\ remaining = 0
    /\ calls = << >>
    /\ events = << >>
    /\ logs = 0
    /\ written = FALSE
    /\ result = NoResult
    /\ error = ""
    /\ verdicts = << >>
    /\ screenshots = << >>
    /\ InitAux

\* detect_scroll_termination(prev, curr, config)
DoDetect ==
    /\ pc = "detect"
    /\ IF ShapeMismatch(prev, curr, config)
       THEN /\ pc' = "raised"
            /\ error' = "invalid-argument"
            /\ UNCHANGED stop
       ELSE /\ pc' = "done"
            /\ stop' = DetectScrollTermination(prev, curr, config)
            /\ UNCHANGED error
    /\ UNCHANGED <<aux, screenshots, verdicts, inputs, cancel, cancel_at, serial, frames,
                   first, swipe, prev, curr, stop_reason, performed_swipes,
                   low_motion_hits, idx, remaining, calls, events, logs,
                   written, result>>

SpecDetect == InitDetect /\ [][DoDetect]_vars

(***************************************************************************)
(* The motion estimate on taller frames: striped frames of heights at      *)
(* which int(h * 0.55) exceeds 8 and h // 240 exceeds 1, scrolled by a few *)
(* rows, so that several overlaps of the searched range score alike.       *)
(***************************************************************************)
MaxScroll == 5

InitMotion ==
    /\ config = [DefaultConfig EXCEPT !.use_ssim = FALSE]
    /\ prev \in {Frame(Image(PlainWidth, h,
                             [i \in 1..h |-> IF i % p < q THEN 1 ELSE 0]), 0) :
                    h \in {7, 9, 17, 20, 31}, p \in 2..6, q \in 1..2}
               \cup {Frame(Image(PlainWidth, h,
                                 [i \in 1..h |-> IF i % 7 < 3 THEN 1 ELSE 0]),
                           0) : h \in {480, 481}}
    /\ curr \in {Scroll(prev, s, fill) : s \in 0..MaxScroll, fill \in {0, 1}}
    /\ pc = "detect"
    /\ stop_event = FALSE
    /\ progress_fn = FALSE
    /\ adb = [available |-> TRUE, online |-> <<"A">>, screens |-> Screens]
    /\ cancel = FALSE
    /\ cancel_at = NotSet
    /\ serial = ""
    /\ frames = << >>
    /\ first = NoFrame
    /\ swipe = NoSwipe
    /\ stop = NoStop
    /\ stop_reason = ""
    /\ performed_swipes = 0
    /\ low_motion_hits = 0
    /\ idx = 0
    /\ remaining = 0
    /\ calls = << >>
    /\ events = << >>
    /\ logs = 0
    /\ written = FALSE
    /\ result = NoResult
    /\ error = ""
    /\ verdicts = << >>
    /\ screenshots = << >>
    /\ InitAux

SpecMotion == InitMotion /\ [][DoDetect]_vars

(***************************************************************************)
(* The stitcher on its own: stitch_frames applied to lists of frames of    *)
(* equal and of differing sizes.                                           *)
(***************************************************************************)
MaxFrames == 3

StitchScreens ==
    {Image(PlainWidth, 9, <<0, 1, 1, 0, 1, 0, 0, 0, 1>>),
     Image(PlainWidth, 9, <<1, 1, 0, 1, 0, 0, 0, 1, 1>>),
     Image(PlainWidth, 9, <<0, 0, 0, 0, 0, 0, 0, 0, 0>>),
     Image(PlainWidth, 1, <<1>>),
     Image(NarrowWidth, 5, <<0, 1, 0, 1, 1>>)} \cup Screens

FrameLists ==
    UNION {[1..n -> {Frame(scr, 0) : scr \in StitchScreens}] :
           n \in 0..MaxFrames}

StitchConfigs ==
    {[DefaultConfig EXCEPT !.overlap_min_similarity = m] : m \in {550, 700}}

InitStitch ==
    /\ config \in StitchConfigs
    /\ frames \in FrameLists
    /\ pc = "stitch_frames"
    /\ stop_event = FALSE
    /\ progress_fn = FALSE
    /\ adb = [available |-> TRUE, online |-> <<"A">>, screens |-> Screens]
    /\ cancel = FALSE
    /\ cancel_at = NotSet
    /\ serial = ""
    /\ first = NoFrame
    /\ swipe = NoSwipe
    /\ prev = NoFrame
    /\ curr = NoFrame
    /\ stop = NoStop
    /\ stop_reason = ""
    /\ performed_swipes = 0
    /\ low_motion_hits = 0
    /\ idx = 0
    /\ remaining = 0
    /\ calls = << >>
    /\ events = << >>
    /\ logs = 0
    /\ written = FALSE
    /\ result = NoResult
    /\ error = ""
    /\ verdicts = << >>
    /\ screenshots = << >>
    /\ InitAux

\* stitch_frames(frames, config)
DoStitch ==
    /\ pc = "stitch_frames"
    /\ \E ov \in OverlapChoices(frames, config) :
          /\ stitched' = StitchFrames(frames, config, ov)
          /\ overlaps' = ov
    /\ pc' = IF stitched'.ok THEN "done" ELSE "raised"
    /\ error' = stitched'.error
    /\ UNCHANGED <<store, upserts, suggested, imported, app, verdicts, screenshots, inputs, cancel, cancel_at,
                   serial, loopState, calls, events, logs, written, result>>

SpecStitch == InitStitch /\ [][DoStitch]_vars

(***************************************************************************)
(* The overlap search on its own: find_best_overlap applied to striped     *)
(* frames of 1 to 440 rows and to what follows them on the screen, under   *)
(* valid configs with a wide, a narrow and a high range of ratios.         *)
(***************************************************************************)
InitOverlap ==
    /\ config \in {c \in {[DefaultConfig EXCEPT !.use_ssim = u,
                                                !.min_overlap_ratio = r[1],
                                                !.max_overlap_ratio = r[2]] :
                               u \in BOOLEAN,
                               r \in {<<80, 920>>, <<500, 510>>,
                                      <<900, 950>>}} : Validate(c)}
    /\ prev \in {Frame(Image(PlainWidth, h,
                             [i \in 1..h |-> IF i % p < q THEN 1 ELSE 0]), 0) :
                    h \in {1, 5, 8, 9, 10, 12, 20, 440}, p \in 2..5,
                    q \in 1..2}
    \* the tallest frames are searched over the narrow and the high range
    /\ prev.h = 440 => config.min_overlap_ratio >= 500
    /\ curr \in {Scroll(prev, s, fill) :
                    s \in 0..Min(MaxScroll, prev.h), fill \in {0, 1}}
    /\ pc = "find_best_overlap"
    /\ stop_event = FALSE
    /\ progress_fn = FALSE
    /\ adb = [available |-> TRUE, online |-> <<"A">>, screens |-> Screens]
    /\ cancel = FALSE
    /\ cancel_at = NotSet
    /\ serial = ""
    /\ frames = << >>
    /\ first = NoFrame
    /\ swipe = NoSwipe
    /\ stop = NoStop
    /\ stop_reason = ""
    /\ performed_swipes = 0
    /\ low_motion_hits = 0
    /\ idx = 0
    /\ remaining = 0
    /\ calls = << >>
    /\ events = << >>
    /\ logs = 0
    /\ written = FALSE
    /\ result = NoResult
    /\ error = ""
    /\ verdicts = << >>
    /\ screenshots = << >>
    /\ InitAux

\* find_best_overlap(prev, curr, config)
DoFindBestOverlap ==
    /\ pc = "find_best_overlap"
    /\ overlaps' = <<FindBestOverlap(prev, curr, config)>>
    /\ pc' = "done"
    /\ UNCHANGED <<stitched, store, upserts, suggested, imported, app, verdicts, screenshots,
                   inputs, cancel, cancel_at, serial, loopState, calls,
                   events, logs, written, result, error>>

SpecOverlap == InitOverlap /\ [][DoFindBestOverlap]_vars

(***************************************************************************)
(* Capture profiles (wearcapture/profiles.py).                             *)
(*                                                                         *)
(* A string that is stripped, lowered or ordered is a sequence of          *)
(* characters.  An optional value is << >> for None: a model regex is      *)
(* << >> or <<regex>>, a display size is << >> or <<w, h>>.  A config      *)
(* dictionary is a function from its keys.  The profile file is the        *)
(* sequence of its JSON items.                                             *)
(***************************************************************************)
None == << >>

PROFILE_CONFIG_KEYS ==
    {"simple_mode", "swipe_x1", "swipe_y1", "swipe_x2", "swipe_y2",
     "swipe_duration_ms", "scroll_delay_ms", "max_swipes",
     "similarity_threshold", "use_ssim", "stop_region_ratio", "low_motion_px",
     "low_motion_similarity", "low_motion_consecutive", "min_overlap_ratio",
     "max_overlap_ratio", "overlap_min_similarity", "downscale_width",
     "circular_mask"}

UpperCase ==
    <<"A", "B", "C", "D", "E", "F", "G", "H", "I", "J", "K", "L", "M", "N",
      "O", "P", "Q", "R", "S", "T", "U", "V", "W", "X", "Y", "Z">>
LowerCase ==
    <<"a", "b", "c", "d", "e", "f", "g", "h", "i", "j", "k", "l", "m", "n",
      "o", "p", "q", "r", "s", "t", "u", "v", "w", "x", "y", "z">>
\* the characters a lowered name is made of, in code point order
CharOrder ==
    <<" ", "-", "0", "1", "2", "3", "4", "5", "6", "7", "8", "9", "_">>
        \o LowerCase

\* str.lower()
LowerChar(ch) ==
    IF \E i \in 1..Len(UpperCase) : UpperCase[i] = ch
    THEN LowerCase[CHOOSE i \in 1..Len(UpperCase) : UpperCase[i] = ch]
    ELSE ch
Lower(str) == [i \in 1..Len(str) |-> LowerChar(str[i])]

\* str.strip()
RECURSIVE StripLeft(_)
StripLeft(str) ==
    IF str # << >> /\ str[1] = " " THEN StripLeft(Tail(str)) ELSE str
RECURSIVE StripRight(_)
StripRight(str) ==
    IF str # << >> /\ str[Len(str)] = " "
    THEN StripRight(SubSeq(str, 1, Len(str) - 1)) ELSE str
StripStr(str) == StripRight(StripLeft(str))

\* a < b for two strings, by code points
Ord(ch) == CHOOSE i \in 1..Len(CharOrder) : CharOrder[i] = ch
RECURSIVE StrLess(_, _)
StrLess(a, b) ==
    IF b = << >> THEN FALSE
    ELSE IF a = << >> THEN TRUE
    ELSE IF a[1] # b[1] THEN Ord(a[1]) < Ord(b[1])
    ELSE StrLess(Tail(a), Tail(b))

CaptureProfile(name, description, cfg, model_regex, display_size, source) ==
    [name |-> name, description |-> description, config |-> cfg,
     model_regex |-> model_regex, display_size |-> display_size,
     source |-> source]

\* Python truth of an optional string: None and "" are false
TruthyStr(opt) == opt # None /\ opt[1] # ""

\* _parse_display_size: a list of two integers, else None
ParseDisplaySize(value) ==
    IF value = None \/ Len(value) # 2 THEN None ELSE <<value[1], value[2]>>

\* _sanitize_profile_config
SanitizeProfileConfig(cfg) ==
    [k \in (DOMAIN cfg) \cap PROFILE_CONFIG_KEYS |-> cfg[k]]

\* _profile_from_json
ProfileFromJson(item, source) ==
    CaptureProfile(StripStr(item.name), StripStr(item.description),
                   SanitizeProfileConfig(item.config), item.model_regex,
                   ParseDisplaySize(item.display_size), source)

\* Variant: the display size is never written.
ProfileToJson_NoDisplaySize(profile) ==
    [name |-> profile.name, description |-> profile.description,
     config |-> SanitizeProfileConfig(profile.config),
     model_regex |-> IF TruthyStr(profile.model_regex)
                     THEN profile.model_regex ELSE None,
     display_size |-> None]

\* _profile_to_json: model_regex and display_size are written only when
\* they are true in Python's sense; a key left out reads back as None.
ProfileToJson(profile) ==
    [name |-> profile.name, description |-> profile.description,
     config |-> SanitizeProfileConfig(profile.config),
     model_regex |-> IF TruthyStr(profile.model_regex)
                     THEN profile.model_regex ELSE None,
     display_size |-> IF profile.display_size # << >>
                      THEN profile.display_size ELSE None]

Chars7(a, b, c, d, e, f, g) == <<a, b, c, d, e, f, g>>
GenericName == Chars7("g", "e", "n", "e", "r", "i", "c")
GalaxyName ==
    <<"g", "a", "l", "a", "x", "y", "_", "w", "a", "t", "c", "h", "_",
      "4", "5", "0">>
PixelName ==
    <<"p", "i", "x", "e", "l", "_", "w", "a", "t", "c", "h", "_",
      "3", "8", "4">>

\* the config of a builtin profile: delay, swipes, threshold, motion pixels
BuiltinConfig(delay, swipes, threshold, px) ==
    [k \in {"simple_mode", "scroll_delay_ms", "max_swipes",
            "similarity_threshold", "low_motion_px", "low_motion_similarity",
            "low_motion_consecutive", "use_ssim"} |->
        CASE k = "simple_mode" -> TRUE
          [] k = "scroll_delay_ms" -> delay
          [] k = "max_swipes" -> swipes
          [] k = "similarity_threshold" -> threshold
          [] k = "low_motion_px" -> px
          [] k = "low_motion_similarity" -> 930
          [] k = "low_motion_consecutive" -> 2
          [] k = "use_ssim" -> TRUE]

\* builtin_profiles(); the descriptions are left out
BuiltinProfiles ==
    <<CaptureProfile(GenericName, << >>, BuiltinConfig(450, 24, 995, 20),
                     None, None, "builtin"),
      CaptureProfile(GalaxyName, << >>, BuiltinConfig(450, 24, 995, 20),
                     <<"^SM_R">>, <<450, 450>>, "builtin"),
      CaptureProfile(PixelName, << >>, BuiltinConfig(430, 22, 994, 18),
                     None, <<384, 384>>, "builtin")>>

\* "if profile.name": the profiles whose name is not empty
RECURSIVE Named(_)
Named(profiles) ==
    IF profiles = << >> THEN << >>
    ELSE IF profiles[1].name # << >>
         THEN <<profiles[1]>> \o Named(Tail(profiles))
         ELSE Named(Tail(profiles))

\* load_user_profiles: the parsed items whose name is not empty
LoadUserProfiles(file) ==
    Named([i \in 1..Len(file) |-> ProfileFromJson(file[i], "user")])

\* save_user_profiles
SaveUserProfiles(profiles) ==
    LET kept == Named(profiles)
    IN  [i \in 1..Len(kept) |-> ProfileToJson(kept[i])]

\* the profiles of a set, ascending by lowered name
RECURSIVE SortedByName(_)
SortedByName(set) ==
    IF set = {} THEN << >>
    ELSE LET least == CHOOSE p \in set :
                         \A q \in set \ {p} :
                             StrLess(Lower(p.name), Lower(q.name))
         IN  <<least>> \o SortedByName(set \ {least})

\* load_profiles: a dictionary keyed by lowered name, builtins first, each
\* user profile overwriting its key; then sorted by that key
LoadProfiles(file) ==
    LET all == BuiltinProfiles \o LoadUserProfiles(file)
        last(key) == CHOOSE i \in 1..Len(all) :
                        /\ Lower(all[i].name) = key
                        /\ \A j \in (i + 1)..Len(all) :
                              Lower(all[j].name) # key
        keys == {Lower(all[i].name) : i \in 1..Len(all)}
    IN  SortedByName({all[last(key)] : key \in keys})

\* Variant: the new profile is always appended.
UpsertInto_AlwaysAppends(existing, profile) == Append(existing, profile)

\* "existing[idx] = profile" for the first item of the same lowered name,
\* "existing.append(profile)" when there is none
UpsertInto(existing, profile) ==
    LET same == {i \in 1..Len(existing) :
                    Lower(existing[i].name) = Lower(profile.name)}
    IN  IF same # {}
        THEN [existing EXCEPT ![CHOOSE i \in same :
                                   \A j \in same : i <= j] = profile]
        ELSE Append(existing, profile)

(***************************************************************************)
(* The profile store on its own: upsert_profile called again and again on  *)
(* a store that starts empty.                                              *)
(***************************************************************************)
MaxUpserts == 3

ProfileNames ==
    {<<"a">>, <<"A", " ">>, <<"b">>,
     Chars7("G", "e", "n", "e", "r", "i", "c"), <<" ">>}

\* what is stored under a name: description, config (one with a key that
\* is no profile key), model regex (None, empty, given), display size
ProfilePayloads ==
    {[description |-> <<"c">>,
      config |-> [k \in {"scroll_delay_ms", "max_swipes"} |->
                     IF k = "max_swipes" THEN 18 ELSE 410],
      model_regex |-> <<"^SM_R890$">>, display_size |-> <<450, 450>>],
     [description |-> <<" ", "c">>,
      config |-> [k \in {"max_swipes", "output_path"} |->
                     IF k = "max_swipes" THEN 12 ELSE 0],
      model_regex |-> <<"">>, display_size |-> None],
     [description |-> << >>,
      config |-> << >>,
      model_regex |-> None, display_size |-> <<384, 384>>]}

InitProfiles ==
    /\ config = DefaultConfig
    /\ pc = "profiles"
    /\ stop_event = FALSE
    /\ progress_fn = FALSE
    /\ adb = [available |-> TRUE, online |-> <<"A">>, screens |-> Screens]
    /\ cancel = FALSE
    /\ cancel_at = NotSet
    /\ serial = ""
    /\ frames = << >>
    /\ first = NoFrame
    /\ swipe = NoSwipe
    /\ prev = NoFrame
    /\ curr = NoFrame
    /\ stop = NoStop
    /\ stop_reason = ""
    /\ performed_swipes = 0
    /\ low_motion_hits = 0
    /\ idx = 0
    /\ remaining = 0
    /\ calls = << >>
    /\ events = << >>
    /\ logs = 0
    /\ written = FALSE
    /\ result = NoResult
    /\ error = ""
    /\ verdicts = << >>
    /\ screenshots = << >>
    /\ InitAux

\* upsert_profile(name=..., config=..., description=..., model_regex=...,
\* display_size=...)
UpsertProfile(name, payload) ==
    /\ pc = "profiles"
    /\ Len(upserts) < MaxUpserts
    /\ IF StripStr(name) = << >>
       THEN /\ error' = "invalid-argument"
            /\ UNCHANGED <<store, upserts>>
       ELSE LET profile ==
                    CaptureProfile(StripStr(name),
                                   StripStr(payload.description),
                                   SanitizeProfileConfig(payload.config),
                                   payload.model_regex, payload.display_size,
                                   "user")
                existing == LoadUserProfiles(store)
            IN  /\ store' = SaveUserProfiles(UpsertInto(existing, profile))
                /\ upserts' = Append(upserts,
                                     [name |-> name, payload |-> payload])
                /\ error' = ""
    /\ UNCHANGED <<stitched, suggested, imported, overlaps, app, verdicts, screenshots, inputs, cancel,
                   cancel_at, pc, serial,
                   loopState, calls, events, logs, written, result>>

NextProfiles ==
    \E name \in ProfileNames, payload \in ProfilePayloads :
        UpsertProfile(name, payload)

SpecProfiles == InitProfiles /\ [][NextProfiles]_vars

(***************************************************************************)
(* Export and import: a profile that load_profiles returns is exported     *)
(* to a file of its own, and that file is imported into the store, under   *)
(* a new name or not.  The store is built by upserts first.                *)
(***************************************************************************)
\* export_profile: the file holds the one profile
ExportProfile(profile) == <<ProfileToJson(profile)>>

\* import_profile(export_profile(p), rename=rename)
ImportProfile(p, rename) ==
    /\ pc = "profiles"
    /\ LET candidate == ExportProfile(p)[1]
           parsed == ProfileFromJson(candidate, "user")
           profile == IF rename # << >>
                      THEN [parsed EXCEPT !.name = StripStr(rename)]
                      ELSE parsed
           upserted == CaptureProfile(StripStr(profile.name),
                                      StripStr(profile.description),
                                      SanitizeProfileConfig(profile.config),
                                      profile.model_regex,
                                      profile.display_size, "user")
           existing == LoadUserProfiles(store)
       IN  IF profile.name = << >>
           THEN /\ error' = "invalid-argument"
                /\ pc' = "raised"
                /\ UNCHANGED <<store, upserts, imported>>
           ELSE /\ store' = SaveUserProfiles(UpsertInto(existing, upserted))
                /\ upserts' =
                       Append(upserts,
                              [name |-> profile.name,
                               payload |->
                                   [description |-> profile.description,
                                    config |-> profile.config,
                                    model_regex |-> profile.model_regex,
                                    display_size |-> profile.display_size]])
                /\ imported' = [p |-> p, rename |-> rename,
                                profile |-> profile, before |-> store]
                /\ error' = ""
                /\ pc' = "imported"
    /\ UNCHANGED <<stitched, suggested, overlaps, app, verdicts, screenshots, inputs, cancel, cancel_at,
                   serial, loopState, calls, events, logs, written, result>>

\* the store an import works on is built by at most MaxStored upserts
MaxStored == 2

StoreProfile(name, payload) ==
    /\ Len(upserts) < MaxStored
    /\ UpsertProfile(name, payload)

NextImport ==
    \/ \E name \in ProfileNames, payload \in ProfilePayloads :
           StoreProfile(name, payload)
    \/ /\ pc = "profiles"
       /\ LET profiles == LoadProfiles(store)
              \* rename: not given (None or "", both false in Python), a
              \* name, a padded name of the key of a stored one, blanks only
          IN  \E i \in 1..Len(profiles),
                 rename \in {<< >>, <<"b">>, <<" ", "a">>, <<" ">>} :
                  ImportProfile(profiles[i], rename)

SpecImport == InitProfiles /\ [][NextImport]_vars

(***************************************************************************)
(* Profile suggestion (CaptureProfile.matches, suggest_profile).           *)
(*                                                                         *)
(* A device model is None or <<characters>>.  A model regex is searched    *)
(* for as re.search does for the regexes in use: an optional "^", literal  *)
(* characters, an optional "$"; "(" does not compile.                      *)
(***************************************************************************)
\* the characters of the regex strings in use
RegexChars(regex) ==
    CASE regex = "^SM_R" -> <<"^", "S", "M", "_", "R">>
      [] regex = "^SM_R890$" -> <<"^", "S", "M", "_", "R", "8", "9", "0", "$">>
      [] regex = "R8" -> <<"R", "8">>
      [] regex = "(" -> <<"(">>
      [] regex = "" -> << >>

\* re.search(regex, text) found a match; a regex that does not compile
\* raises re.error, which matches() swallows
ReSearch(regex, text) ==
    LET r == RegexChars(regex)
        compiles == \A i \in 1..Len(r) : r[i] # "("
        atStart == r # << >> /\ r[1] = "^"
        atEnd == r # << >> /\ r[Len(r)] = "$"
        body == SubSeq(r, IF atStart THEN 2 ELSE 1,
                       IF atEnd THEN Len(r) - 1 ELSE Len(r))
    IN  /\ compiles
        /\ \E i \in 1..(Len(text) - Len(body) + 1) :
              /\ atStart => i = 1
              /\ atEnd => i + Len(body) - 1 = Len(text)
              /\ SubSeq(text, i, i + Len(body) - 1) = body

\* CaptureProfile.matches
Matches(profile, device_model, display_size) ==
    (IF /\ profile.display_size # None
        /\ display_size # None
        /\ profile.display_size = display_size
     THEN 4 ELSE 0)
    + (IF /\ TruthyStr(profile.model_regex)
          /\ device_model # None /\ device_model[1] # << >>
          /\ ReSearch(profile.model_regex[1], device_model[1])
       THEN 3 ELSE 0)

\* Variant: the first profile that matches at all is suggested.
SuggestProfile_FirstMatch(device_model, display_size, profiles) ==
    LET score(i) == Matches(profiles[i], device_model, display_size)
        hits == {i \in 1..Len(profiles) : score(i) > 0}
        generic == {i \in 1..Len(profiles) :
                       Lower(profiles[i].name) = GenericName}
    IN  IF hits # {}
        THEN <<profiles[CHOOSE i \in hits : \A j \in hits : i <= j]>>
        ELSE IF generic # {}
        THEN <<profiles[CHOOSE i \in generic : \A j \in generic : i <= j]>>
        ELSE IF profiles # << >> THEN <<profiles[1]>> ELSE None

\* suggest_profile: the list is sorted by (score, name != "generic"),
\* descending; the sort is stable, so the head is the first profile of the
\* greatest key.  None is << >>, a profile p is <<p>>.
SuggestProfile(device_model, display_size, profiles) ==
    LET score(i) == Matches(profiles[i], device_model, display_size)
        other(i) == IF profiles[i].name # GenericName THEN 1 ELSE 0
        before(i, j) == \/ score(i) > score(j)
                        \/ score(i) = score(j) /\ other(i) > other(j)
        heads == {i \in 1..Len(profiles) :
                     \A j \in 1..Len(profiles) : ~before(j, i)}
        head == CHOOSE i \in heads : \A j \in heads : i <= j
        generic == {i \in 1..Len(profiles) :
                       Lower(profiles[i].name) = GenericName}
    IN  IF profiles # << >> /\ score(head) > 0
        THEN <<profiles[head]>>
        ELSE IF generic # {}
        THEN <<profiles[CHOOSE i \in generic : \A j \in generic : i <= j]>>
        ELSE IF profiles # << >> THEN <<profiles[1]>> ELSE None

\* the engine at rest, for the operations exercised outside a capture run
AtRest ==
    /\ config = DefaultConfig
    /\ stop_event = FALSE
    /\ progress_fn = FALSE
    /\ adb = [available |-> TRUE, online |-> <<"A">>, screens |-> Screens]
    /\ cancel = FALSE
    /\ cancel_at = NotSet
    /\ serial = ""
    /\ frames = << >>
    /\ first = NoFrame
    /\ swipe = NoSwipe
    /\ prev = NoFrame
    /\ curr = NoFrame
    /\ stop = NoStop
    /\ stop_reason = ""
    /\ performed_swipes = 0
    /\ low_motion_hits = 0
    /\ idx = 0
    /\ remaining = 0
    /\ calls = << >>
    /\ events = << >>
    /\ logs = 0
    /\ written = FALSE
    /\ result = NoResult
    /\ error = ""
    /\ verdicts = << >>
    /\ screenshots = << >>

(***************************************************************************)
(* suggest_profile on its own, applied to lists of at most MaxProfiles     *)
(* profiles: the builtins and four user profiles.                          *)
(***************************************************************************)
MaxProfiles == 3

InitSuggest ==
    /\ AtRest
    /\ pc = "suggest_profile"
    /\ stitched = NoStitch
    /\ store = << >>
    /\ upserts = << >>
    /\ imported = << >>
    /\ overlaps = << >>
    /\ app = AppAtStart
    /\ LET pool ==
            {BuiltinProfiles[i] : i \in 1..Len(BuiltinProfiles)} \cup
            {CaptureProfile(<<"a">>, << >>, << >>, <<"^SM_R890$">>, <<450, 450>>,
                            "user"),
             CaptureProfile(<<"b">>, << >>, << >>, <<"(">>, <<450, 450>>, "user"),
             CaptureProfile(<<"c">>, << >>, << >>, <<"R8">>, <<384, 384>>, "user"),
             CaptureProfile(Chars7("G", "e", "n", "e", "r", "i", "c"), << >>, << >>,
                            None, None, "user")}
       IN suggested \in
           [device_model : {None, <<Chars7("S", "M", "_", "R", "8", "9", "0")>>,
                            <<<<"P", "i", "x", "e", "l">>>>, <<<< >>>>},
            display_size : {None, <<450, 450>>, <<384, 384>>},
            profiles : UNION {[1..n -> pool] : n \in 0..MaxProfiles},
            result : {None}]

\* suggest_profile(device_model, display_size, profiles)
DoSuggest ==
    /\ pc = "suggest_profile"
    /\ suggested' = [suggested EXCEPT !.result =
                        SuggestProfile(suggested.device_model,
                                       suggested.display_size,
                                       suggested.profiles)]
    /\ pc' = "done"
    /\ UNCHANGED <<stitched, store, upserts, imported, overlaps, app, verdicts, screenshots, inputs,
                   cancel, cancel_at, serial, loopState, calls, events, logs,
                   written, result, error>>

SpecSuggest == InitSuggest /\ [][DoSuggest]_vars

(***************************************************************************)
(* The derivation of the SwipeSpec on its own (capture_engine.py:149):     *)
(* every combination of overrides, 0 among their values, both modes, two   *)
(* durations, first frames of three sizes.                                 *)
(***************************************************************************)
InitDerive ==
    /\ LET vals == {NoneInt, 0, 10}
       IN config \in
           {[DefaultConfig EXCEPT !.simple_mode = m, !.swipe_x1 = x1,
                                  !.swipe_y1 = y1, !.swipe_x2 = x2,
                                  !.swipe_y2 = y2, !.swipe_duration_ms = d] :
               m \in BOOLEAN, x1 \in vals, y1 \in vals, x2 \in vals,
               y2 \in vals, d \in {300, 450}}
    /\ first \in {Frame(size, 1) : size \in Screens \cup PatternScreens}
    /\ pc = "derive"
    /\ stop_event = FALSE
    /\ progress_fn = FALSE
    /\ adb = [available |-> TRUE, online |-> <<"A">>, screens |-> Screens]
    /\ cancel = FALSE
    /\ cancel_at = NotSet
    /\ serial = "A"
    /\ frames = <<first>>
    /\ swipe = NoSwipe
    /\ prev = NoFrame
    /\ curr = NoFrame
    /\ stop = NoStop
    /\ stop_reason = ""
    /\ performed_swipes = 0
    /\ low_motion_hits = 0
    /\ idx = 0
    /\ remaining = 0
    /\ calls = << >>
    /\ events = << >>
    /\ logs = 0
    /\ written = FALSE
    /\ result = NoResult
    /\ error = ""
    /\ verdicts = << >>
    /\ screenshots = << >>
    /\ InitAux

\* swipe = self._auto_swipe_spec(first) if config.simple_mode
\*         else self._advanced_swipe_spec(config, first)
DeriveSwipe ==
    /\ pc = "derive"
    /\ swipe' = IF config.simple_mode
                THEN AutoSwipeSpec(first)
                ELSE AdvancedSwipeSpec(config, first)
    /\ pc' = "done"
    /\ UNCHANGED <<aux, screenshots, verdicts, inputs, cancel, cancel_at, serial, frames,
                   first, prev, curr, stop, stop_reason, performed_swipes,
                   low_motion_hits, idx, remaining, calls, events, logs,
                   written, result, error>>

SpecDerive == InitDerive /\ [][DeriveSwipe]_vars

(***************************************************************************)
(* Properties of the capture engine.                                       *)
(***************************************************************************)
Phases(p) == {i \in 1..Len(events) : events[i].phase = p}

\* The validated ranges of the specification's CaptureConfig table.
TableValid(c) ==
    /\ c.max_swipes >= 1
    /\ c.swipe_duration_ms >= 0
    /\ c.scroll_delay_ms >= 0
    /\ c.similarity_threshold >= 0 /\ c.similarity_threshold <= 1000
    /\ c.stop_region_ratio > 0 /\ c.stop_region_ratio < 1000
    /\ c.low_motion_px >= 0 /\ c.low_motion_px <= 200
    /\ c.low_motion_similarity >= 0 /\ c.low_motion_similarity <= 1000
    /\ c.low_motion_consecutive >= 1
    /\ c.min_overlap_ratio > 0 /\ c.min_overlap_ratio < 1000
    /\ c.max_overlap_ratio > 0 /\ c.max_overlap_ratio < 1000
    /\ c.min_overlap_ratio < c.max_overlap_ratio
    /\ c.overlap_min_similarity >= 0 /\ c.overlap_min_similarity <= 1000
    /\ c.downscale_width >= 64
    /\ c.output_path # ""

\* C1: with a validated config the bridge never receives more than
\* max_swipes swipe calls and performed_swipes never exceeds max_swipes.
C1_SwipesBounded ==
    Validate(config) =>
        /\ SwipeCalls <= config.max_swipes
        /\ performed_swipes <= config.max_swipes

C1_Witness ==
    /\ pc = "done"
    /\ config.max_swipes >= 2
    /\ SwipeCalls = config.max_swipes
    /\ result.swipes_performed = config.max_swipes

\* C2: the first frame stays at the head of the buffer, and a returned
\* result reports the length of the buffer that was stitched, at least 1.
C2_FramesCaptured ==
    /\ first # NoFrame => (Len(frames) >= 1 /\ frames[1] = first)
    /\ pc = "done" =>
         /\ result.frames_captured = Len(frames)
         /\ result.frames_captured >= 1

C2_Witness ==
    /\ pc = "done"
    /\ result.frames_captured >= 2
    /\ result.frames_captured < result.swipes_performed + 1

\* C3: once the engine has left the loop because it observed the cancel
\* flag, it never raises, and it goes on to write the PNG, emit 'complete'
\* and return a result whose stop_reason is "user requested stop".
C3_CancelIsNotAnError ==
    /\ [](stop_reason = UserStop => pc # "raised")
    /\ (stop_reason = UserStop) ~>
           (/\ pc = "done"
            /\ written
            /\ result.stop_reason = UserStop
            /\ progress_fn => events[Len(events)].phase = "complete")

C3_Witness ==
    /\ pc = "done"
    /\ written
    /\ result.stop_reason = UserStop
    /\ result.frames_captured >= 2
    /\ progress_fn

\* The flag was set between the delivery of the first iteration's progress
\* event and the engine's next statement.
CancelDuringFirstDelivery == cancel_at.pc = "decide" /\ cancel_at.idx = 0

\* The reason the first iteration itself gives for leaving the loop, if any
\* (stop still holds the first iteration's verdict when the case applies).
FirstIterationReason ==
    IF stop.should_stop THEN stop.reason
    ELSE IF stop.low_motion_candidate /\ config.low_motion_consecutive <= 1
         THEN LowMotionReason
         ELSE IF config.max_swipes <= 1 THEN MaxSwipesReached ELSE UserStop

\* C4 as stated: a flag set during the first iteration's progress event
\* always ends in a result with stop_reason "user requested stop", after at
\* most one more screenshot.
C4_AsStated ==
    (CancelDuringFirstDelivery /\ TableValid(config) /\ pc = "done") =>
        /\ ShotCalls <= cancel_at.shots + 1
        /\ written
        /\ result.stop_reason = UserStop

\* C4 amended: a flag set during the first iteration's progress event leads
\* to at most one more screenshot, no error, a written PNG and a result;
\* the stop_reason is "user requested stop" unless the first iteration
\* itself ends the loop (detector stop, low-motion stop, or max_swipes = 1),
\* and is that ending's reason otherwise.
C4_CancelAfterFirstIteration ==
    /\ [](CancelDuringFirstDelivery =>
            /\ pc # "raised"
            /\ ShotCalls <= cancel_at.shots + 1
            /\ pc = "done" =>
                 /\ written
                 /\ result.stop_reason = FirstIterationReason)
    /\ CancelDuringFirstDelivery ~> (pc = "done" /\ written)

C4_Witness ==
    /\ pc = "done"
    /\ CancelDuringFirstDelivery
    /\ config.max_swipes >= 2
    /\ result.stop_reason = UserStop
    /\ result.frames_captured = 2

\* C5: a loop iteration that starts with the flag set leaves the loop
\* without any bridge call; a flag set before capture() starts gives zero
\* swipes, exactly one screenshot, and the result (0 swipes, 1 frame,
\* "user requested stop").
C5_NoSwipeOnCancel ==
    /\ [][(pc = "loop_top" /\ LoopHasNext(idx, config) /\ stop_event /\ cancel)
            => (/\ pc' = "stitch"
                /\ calls' = calls
                /\ frames' = frames
                /\ stop_reason' = UserStop)]_vars
    /\ [](cancel_at.pc = "validate" =>
            /\ SwipeCalls = 0
            /\ ShotCalls <= 1
            /\ pc = "done" =>
                 /\ ShotCalls = 1
                 /\ result.swipes_performed = 0
                 /\ result.frames_captured = 1
                 /\ result.stop_reason = UserStop)

C5_Witness ==
    /\ pc = "done"
    /\ cancel_at.pc = "validate"
    /\ ShotCalls = 1
    /\ result.stop_reason = UserStop

\* C6: when capture ends with an error, nothing was written, no 'complete'
\* event was emitted and no result (hence no frame) is handed back.
C6_ErrorDiscards ==
    pc = "raised" =>
        /\ ~written
        /\ Phases("complete") = {}
        /\ result = NoResult
        /\ error \in {"invalid-config", "bridge-unavailable",
                      "device-not-found", "multiple-devices", "capture-failed"}

C6_Witness ==
    /\ pc = "raised"
    /\ error = "capture-failed"
    /\ Len(frames) >= 2
    /\ Phases("iteration") # {}

\* The outcome of device resolution as the specification words it.
ExpectedResolution ==
    LET p == config.serial
        on == adb.online
    IN  CASE p # "" /\ InSeq(p, on) -> [ok |-> TRUE, value |-> p]
          [] p # "" /\ ~InSeq(p, on) -> [ok |-> FALSE, value |-> "device-not-found"]
          [] p = "" /\ Len(on) = 0 -> [ok |-> FALSE, value |-> "device-not-found"]
          [] p = "" /\ Len(on) > 1 -> [ok |-> FALSE, value |-> "multiple-devices"]
          [] OTHER -> [ok |-> TRUE, value |-> on[1]]

\* C7: device resolution yields the preferred serial when it is online,
\* device-not-found when it is not or when nothing is online,
\* multiple-devices when several are online and none is preferred, else the
\* unique online serial; on these errors no screenshot or swipe was issued.
C7_DeviceResolution ==
    /\ (pc = "raised" /\ error \in {"device-not-found", "multiple-devices"}) =>
         /\ ~ExpectedResolution.ok
         /\ error = ExpectedResolution.value
         /\ SwipeCalls = 0
         /\ ShotCalls = 0
    /\ serial # "" =>
         /\ ExpectedResolution.ok
         /\ serial = ExpectedResolution.value
    /\ ~ExpectedResolution.ok =>
         /\ pc \in {"validate", "is_available", "resolve", "raised"}
         /\ ShotCalls = 0

C7_Witness ==
    /\ pc = "raised"
    /\ error = "device-not-found"
    /\ config.serial = "B"
    /\ Len(adb.online) = 1

\* C8: a config that validate() rejects makes capture fail before any
\* bridge operation, progress event or log line.
C8_ValidateFirst ==
    ~Validate(config) =>
        /\ pc \in {"validate", "raised"}
        /\ pc = "raised" => error = "invalid-config"
        /\ calls = << >>
        /\ events = << >>
        /\ logs = 0

C8_Witness ==
    /\ pc = "raised"
    /\ error = "invalid-config"
    /\ ~adb.available
    /\ calls = << >>

\* C9: validate() rejects exactly the configs that violate a validated
\* range of the CaptureConfig table.
C9_ValidateMatchesTable ==
    pc # "validate" =>
        ((pc = "raised" /\ error = "invalid-config") <=> ~TableValid(config))

\* C10: in a successful capture the progress events are one 'initial', then
\* 'iteration' events, then at most one 'stopping', then one 'complete'
\* last; swipes_performed never decreases along the sequence.
PhaseRank(p) ==
    CASE p = "initial" -> 0
      [] p = "iteration" -> 1
      [] p = "stopping" -> 2
      [] p = "complete" -> 3

C10_EventOrder ==
    (pc = "done" /\ progress_fn) =>
        /\ Len(events) >= 2
        /\ Phases("initial") = {1}
        /\ Phases("complete") = {Len(events)}
        /\ Cardinality(Phases("stopping")) <= 1
        /\ \A i \in 1..(Len(events) - 1) :
             /\ PhaseRank(events[i].phase) <= PhaseRank(events[i + 1].phase)
             /\ events[i].swipes_performed <= events[i + 1].swipes_performed

C10_Witness ==
    /\ pc = "done"
    /\ progress_fn
    /\ Cardinality(Phases("iteration")) >= 2
    /\ Cardinality(Phases("stopping")) = 1

(***************************************************************************)
(* Properties of the stop detector.                                        *)
(***************************************************************************)
\* C11: the detector applied to a frame and the same frame again says stop
\* and estimates a motion of 0 pixels.
C11_StationaryFrame ==
    (pc = "done" /\ curr = prev)
        => (stop.should_stop /\ stop.estimated_motion_px = 0)

\* C12: the verdict is fixed by the two similarities and the threshold, the
\* bottom/top rule first: bottom_top_similarity >= similarity_threshold gives
\* stop with the bottom/top reason, also when the full-frame rule holds;
\* otherwise full_similarity >= max(0.98, similarity_threshold - 0.01) gives
\* stop with the frame-to-frame reason; otherwise the verdict is not stop.
FullFrameLimit(c) ==
    IF c.similarity_threshold - 10 > 980
    THEN c.similarity_threshold - 10 ELSE 980

C12_RuleOrder ==
    pc = "done" =>
        IF stop.bottom_top_similarity >= config.similarity_threshold
        THEN stop.should_stop /\ stop.reason = BottomTopReason
        ELSE IF stop.full_similarity >= FullFrameLimit(config)
             THEN stop.should_stop /\ stop.reason = FullFrameReason
             ELSE ~stop.should_stop

C12_Witness ==
    /\ pc = "done"
    /\ stop.bottom_top_similarity >= config.similarity_threshold
    /\ stop.full_similarity >= FullFrameLimit(config)
    /\ stop.reason = BottomTopReason

(***************************************************************************)
(* Properties of the stitcher.                                             *)
(***************************************************************************)
RECURSIVE SumHeights(_)
SumHeights(fs) == IF fs = << >> THEN 0 ELSE fs[1].h + SumHeights(Tail(fs))

Stitched == pc \in {"done", "raised"} /\ frames # << >>

\* C13: for a non-empty list, frames of any sizes and any overlaps found,
\* stitch_frames gives an image as wide as the first frame.
C13_StitchedWidth ==
    Stitched => (stitched.ok /\ stitched.w = frames[1].w)

C13_Witness ==
    /\ Stitched
    /\ stitched.ok
    /\ \E i \in 1..Len(frames) : frames[i].w # frames[1].w
    /\ \E i \in 1..Len(frames) : stitched.parts[i].from > 0

\* C14 as stated: the stitched height lies between the height of the first
\* frame and the sum of the heights of the frames handed in.
C14_AsStated ==
    Stitched =>
        /\ stitched.h >= frames[1].h
        /\ stitched.h <= SumHeights(frames)

\* C14: the stitched height lies between the height of the first frame and
\* that height times the number of frames; one frame alone gives an image
\* of exactly its size.
C14_HeightBounds ==
    Stitched =>
        /\ stitched.ok
        /\ stitched.h >= frames[1].h
        /\ stitched.h <= Len(frames) * frames[1].h
        /\ Len(frames) = 1 =>
              (stitched.h = frames[1].h /\ stitched.w = frames[1].w)

C14_Witness ==
    /\ Stitched
    /\ stitched.ok
    /\ Len(frames) >= 2
    /\ stitched.h > SumHeights(frames)
    /\ stitched.h < Len(frames) * frames[1].h

\* C15: stitch_frames on an empty list fails with an invalid-argument
\* error and gives no image.
C15_EmptyListFails ==
    (pc # "stitch_frames" /\ frames = << >>) =>
        /\ pc = "raised"
        /\ error = "invalid-argument"
        /\ ~stitched.ok
        /\ stitched.w = 0 /\ stitched.h = 0

C15_Witness == pc = "raised" /\ frames = << >> /\ error = "invalid-argument"

(***************************************************************************)
(* Properties of the loop's stop decisions, stated on the history of the   *)
(* detector's verdicts.                                                    *)
(***************************************************************************)
\* iteration i has gone through the rest of the loop body
Decided(i) == i < Len(verdicts) \/ pc # "decide"

\* the frame captured last is not in the buffer
CurrNotBuffered == \A j \in 1..Len(frames) : frames[j].shot # curr.shot

\* the bridge handed back the rows of the frame accepted last, and the
\* detector was run on them
RepeatedFrame ==
    /\ performed_swipes >= 1
    /\ Len(verdicts) = performed_swipes
    /\ curr.px # Opaque
    /\ curr.px = prev.px
    /\ curr.shot # prev.shot

\* C16: an iteration whose verdict is stop ends the loop with the
\* detector's reason and its frame is not appended; so a screenshot equal
\* to the frame accepted last, after N accepted frames, gives a result with
\* frames_captured = N and one of the detector's two stop reasons.
C16_DetectorStop ==
    /\ \A i \in 1..Len(verdicts) :
          verdicts[i].should_stop =>
             /\ i = Len(verdicts)
             /\ pc \in {"decide", "stitch", "return", "done"}
             /\ pc # "decide" =>
                   /\ stop_reason = verdicts[i].reason
                   /\ Len(frames) = i
                   /\ CurrNotBuffered
             /\ pc = "done" =>
                   /\ result.stop_reason = verdicts[i].reason
                   /\ result.frames_captured = i
    /\ (pc = "done" /\ RepeatedFrame) =>
          /\ result.stop_reason \in {BottomTopReason, FullFrameReason}
          /\ result.frames_captured = Len(verdicts)
          /\ frames[Len(frames)] = prev

C16_Witness ==
    /\ pc = "done"
    /\ RepeatedFrame
    /\ Len(frames) >= 2
    /\ result.frames_captured = Len(frames)

\* the number of iterations up to i, without a gap, whose
\* low_motion_candidate flag is true
RECURSIVE TrailingCandidates(_, _)
TrailingCandidates(vs, i) ==
    IF i = 0 \/ ~vs[i].low_motion_candidate THEN 0
    ELSE 1 + TrailingCandidates(vs, i - 1)

LowMotionDue(i) ==
    /\ ~verdicts[i].should_stop
    /\ TrailingCandidates(verdicts, i) = config.low_motion_consecutive

\* C17: the loop ends with the low-motion reason on exactly the iteration
\* whose verdict is not stop and which is the low_motion_consecutive-th in
\* a row with the low_motion_candidate flag true; the hit counter is the
\* length of that row (0 after a verdict with the flag false); the frame of
\* the stopping iteration is not appended.
C17_LowMotionStop ==
    \A i \in 1..Len(verdicts) :
        Decided(i) =>
           /\ (i = Len(verdicts) /\ stop_reason = LowMotionReason)
                 <=> LowMotionDue(i)
           /\ LowMotionDue(i) =>
                 /\ pc \in {"stitch", "return", "done"}
                 /\ Len(frames) = i
                 /\ CurrNotBuffered
           /\ (i = Len(verdicts) /\ ~verdicts[i].should_stop) =>
                 low_motion_hits = TrailingCandidates(verdicts, i)

C17_Witness ==
    /\ pc = "done"
    /\ result.stop_reason = LowMotionReason
    /\ config.low_motion_consecutive = 2
    /\ Len(verdicts) >= 3
    /\ ~verdicts[1].low_motion_candidate

\* iteration i ran to its end: its frame was appended
Accepted(i) == ~verdicts[i].should_stop /\ ~LowMotionDue(i)

\* C18: the result says "max swipes reached" exactly when max_swipes
\* iterations were run and each of them ran to its end (no detector stop,
\* no low-motion stop; an observed cancel flag leaves an iteration without
\* a verdict); swipes_performed is then max_swipes.
C18_MaxSwipesReached ==
    pc = "done" =>
        /\ (result.stop_reason = MaxSwipesReached)
              <=> (/\ Len(verdicts) = config.max_swipes
                   /\ \A i \in 1..Len(verdicts) : Accepted(i))
        /\ result.stop_reason = MaxSwipesReached =>
              result.swipes_performed = config.max_swipes

C18_Witness ==
    /\ pc = "done"
    /\ result.stop_reason = MaxSwipesReached
    /\ config.max_swipes >= 2
    /\ cancel
    /\ \E i \in 1..Len(verdicts) : verdicts[i].low_motion_candidate

(***************************************************************************)
(* Properties of the swipe geometry.                                       *)
(***************************************************************************)
\* round(h * percent / 100), halves rounded up
RoundScale(h, percent) == (h * percent + 50) \div 100

SwipesIssued == {i \in 1..Len(calls) : calls[i].op = "swipe"}

\* C19 as stated: in simple mode every swipe runs from (W/2, round(0.78*H))
\* to (W/2, round(0.24*H)) in 300 ms.
C19_AsStated ==
    (config.simple_mode /\ TableValid(config)) =>
        \A i \in SwipesIssued :
            calls[i].spec = SwipeSpec(first.w \div 2, RoundScale(first.h, 78),
                                      first.w \div 2, RoundScale(first.h, 24),
                                      300)

\* C19: in simple mode every swipe runs from (W/2, 0.78*H) to (W/2, 0.24*H)
\* in 300 ms, the products cut to whole pixels, whatever the config's
\* swipe_* overrides and swipe_duration_ms are.
C19_SimpleModeSwipe ==
    config.simple_mode =>
        \A i \in SwipesIssued :
            calls[i].spec = SwipeSpec(first.w \div 2, (78 * first.h) \div 100,
                                      first.w \div 2, (24 * first.h) \div 100,
                                      300)

C19_Witness ==
    /\ config.simple_mode
    /\ config.swipe_x1 # NoneInt
    /\ config.swipe_duration_ms # 300
    /\ Cardinality(SwipesIssued) >= 2
    /\ first.h = 454

(***************************************************************************)
(* Properties of the profile store.                                        *)
(***************************************************************************)
NameKey(name) == Lower(StripStr(name))
UpsertedKeys == {NameKey(upserts[i].name) : i \in 1..Len(upserts)}
LastUpsert(key) ==
    upserts[CHOOSE i \in 1..Len(upserts) :
               /\ NameKey(upserts[i].name) = key
               /\ \A j \in (i + 1)..Len(upserts) :
                     NameKey(upserts[j].name) # key]

\* the recognised keys of a config that was passed, with their values
Recognised(cfg) ==
    [k \in {key \in DOMAIN cfg : key \in PROFILE_CONFIG_KEYS} |-> cfg[k]]

\* an empty model regex means no regex
GivenRegex(opt) == IF opt = <<"">> THEN None ELSE opt

\* profile p holds what upsert u passed
Holds(p, u) ==
    /\ p.config = Recognised(u.payload.config)
    /\ p.display_size = u.payload.display_size
    /\ p.model_regex = GivenRegex(u.payload.model_regex)
    /\ p.source = "user"

\* C20: after any upserts on a store that was empty, the user store has at
\* most one profile per lowered name; the profile of a name holds the
\* recognised config keys, the display size and the model regex of the last
\* upsert for that name; load_profiles returns that profile under the
\* name, also in place of a builtin of that name, and every other builtin.
C20_UpsertThenLoad ==
    LET user == LoadUserProfiles(store)
        loaded == LoadProfiles(store)
    IN  /\ \A i, j \in 1..Len(user) :
              i # j => Lower(user[i].name) # Lower(user[j].name)
        /\ {Lower(user[i].name) : i \in 1..Len(user)} = UpsertedKeys
        /\ \A i \in 1..Len(user) :
              Holds(user[i], LastUpsert(Lower(user[i].name)))
        /\ \A key \in UpsertedKeys :
              \E i \in 1..Len(loaded) :
                 /\ Lower(loaded[i].name) = key
                 /\ Holds(loaded[i], LastUpsert(key))
                 /\ \A j \in 1..Len(loaded) :
                       Lower(loaded[j].name) = key => j = i
        /\ \A b \in 1..Len(BuiltinProfiles) :
              Lower(BuiltinProfiles[b].name) \notin UpsertedKeys =>
                 \E i \in 1..Len(loaded) : loaded[i] = BuiltinProfiles[b]

C20_Witness ==
    /\ Len(upserts) = 3
    /\ Len(store) = 2
    /\ GenericName \in UpsertedKeys
    /\ upserts[1].name # upserts[2].name
    /\ NameKey(upserts[1].name) = NameKey(upserts[2].name)
    /\ upserts[1].payload # upserts[2].payload
    /\ "output_path" \in DOMAIN upserts[2].payload.config
(***************************************************************************)
(* Properties of profile suggestion.                                       *)
(***************************************************************************)
\* the score of a given profile for the device the suggestion was asked for
ScoreOf(profile) ==
    Matches(profile, suggested.device_model, suggested.display_size)
Given == {suggested.profiles[i] : i \in 1..Len(suggested.profiles)}
BestScore ==
    LET scores == {0} \cup {ScoreOf(p) : p \in Given}
    IN  CHOOSE m \in scores : \A n \in scores : n <= m
\* the suggestion is a given profile of the greatest score
SuggestsBest ==
    /\ suggested.result # None
    /\ suggested.result[1] \in Given
    /\ ScoreOf(suggested.result[1]) = BestScore
\* the suggestion is the first given profile that satisfies named(_)
FirstOf(indices) ==
    suggested.result =
        <<suggested.profiles[CHOOSE i \in indices : \A j \in indices : i <= j]>>

\* C21 as stated: the suggestion has the greatest score when that score is
\* positive; when every score is 0 it is the profile whose name is exactly
\* "generic" if one is given, else the first profile, else none.
C21_AsStated ==
    pc = "done" =>
        LET exact == {i \in 1..Len(suggested.profiles) :
                         suggested.profiles[i].name = GenericName}
        IN  IF BestScore > 0 THEN SuggestsBest
            ELSE IF exact # {} THEN FirstOf(exact)
            ELSE IF suggested.profiles # << >>
            THEN suggested.result = <<suggested.profiles[1]>>
            ELSE suggested.result = None

\* C21: the suggestion has the greatest score (4 for an equal display size
\* plus 3 for a matching model regex) when that score is positive; when
\* every score is 0 it is the first profile whose name is "generic" in any
\* letter case if one is given, else the first profile, else none.
C21_SuggestsBestMatch ==
    pc = "done" =>
        LET anyCase == {i \in 1..Len(suggested.profiles) :
                           Lower(suggested.profiles[i].name) = GenericName}
        IN  IF BestScore > 0 THEN SuggestsBest
            ELSE IF anyCase # {} THEN FirstOf(anyCase)
            ELSE IF suggested.profiles # << >>
            THEN suggested.result = <<suggested.profiles[1]>>
            ELSE suggested.result = None

\* a profile of score 3 or 4 is listed before the one of score 7, which is
\* the suggestion
C21_Witness ==
    /\ pc = "done"
    /\ Len(suggested.profiles) >= 2
    /\ ScoreOf(suggested.profiles[1]) \in {3, 4}
    /\ BestScore = 7
    /\ suggested.result # None
    /\ ScoreOf(suggested.result[1]) = 7

(***************************************************************************)
(* Properties of export and import.                                        *)
(***************************************************************************)
\* the name the imported profile goes by: the new name without the blanks
\* around it, the exported profile's own name when no new name is given
ImportedName ==
    IF imported.rename # << >> THEN StripStr(imported.rename)
    ELSE imported.p.name
\* what a profile carries besides its name and where it comes from
Carried(profile) ==
    [config |-> profile.config, description |-> profile.description,
     model_regex |-> profile.model_regex,
     display_size |-> profile.display_size]
\* the profiles of a file whose name is not the given one in any letter case
RECURSIVE Others(_, _)
Others(profiles, name) ==
    IF profiles = << >> THEN << >>
    ELSE IF Lower(profiles[1].name) = Lower(name)
         THEN Others(Tail(profiles), name)
         ELSE <<profiles[1]>> \o Others(Tail(profiles), name)

\* C22: export then import is a round trip: the profile returned and the
\* one stored are one user profile of the new name whose config,
\* description, model regex and display size are those of the exported
\* profile, and every other stored profile is as it was.
C22_RoundTrip ==
    pc = "imported" =>
        LET after == LoadUserProfiles(store)
            named == {i \in 1..Len(after) :
                         Lower(after[i].name) = Lower(ImportedName)}
        IN  /\ imported.profile.name = ImportedName
            /\ imported.profile.source = "user"
            /\ Carried(imported.profile) = Carried(imported.p)
            /\ Cardinality(named) = 1
            /\ \A i \in named : after[i] = imported.profile
            /\ LET loaded == LoadProfiles(store)
               IN  \E i \in 1..Len(loaded) : loaded[i] = imported.profile
            /\ Others(after, ImportedName) =
                   Others(LoadUserProfiles(imported.before), ImportedName)

\* a stored user profile with a config, a model regex and a display size
\* was imported under a new name, next to another stored profile
C22_Witness ==
    /\ pc = "imported"
    /\ imported.rename = <<"b">>
    /\ imported.p.source = "user"
    /\ Lower(imported.p.name) = <<"a">>
    /\ imported.p.model_regex # None
    /\ imported.p.display_size # None
    /\ DOMAIN imported.p.config # {}
    /\ Len(LoadUserProfiles(imported.before)) = 2
    /\ Len(LoadUserProfiles(store)) = 3

(***************************************************************************)
(* Properties of cancellation inside the loop.                             *)
(***************************************************************************)
\* the post-swipe delay is about to begin and the flag is already set
DelayBeginsCancelled ==
    /\ pc = "sleep"
    /\ remaining = config.scroll_delay_ms
    /\ stop_event /\ cancel
\* the engine leaves the loop on the flag, with no bridge call
LeavesOnCancel ==
    /\ pc' = "stitch"
    /\ stop_reason' = UserStop
    /\ calls' = calls
    /\ frames' = frames

\* C23 as stated: for every scroll_delay_ms >= 0, 0 included, a flag that is
\* set when the post-swipe delay begins makes the engine leave the loop
\* with "user requested stop" without the screenshot of that iteration.
C23_AsStated ==
    [][(DelayBeginsCancelled /\ config.scroll_delay_ms >= 0)
          => LeavesOnCancel]_vars

\* C23: for every scroll_delay_ms > 0, a flag that is set when the
\* post-swipe delay begins makes the engine leave the loop with "user
\* requested stop" without the screenshot of that iteration; with
\* scroll_delay_ms = 0 the flag is not looked at before the screenshot: the
\* screenshot is taken, and the checkpoint after it leaves the loop.
C23_PolledDuringDelay ==
    /\ [][(DelayBeginsCancelled /\ config.scroll_delay_ms > 0)
             => LeavesOnCancel]_vars
    /\ [][(DelayBeginsCancelled /\ config.scroll_delay_ms = 0)
             => (pc' = "capture" /\ stop_reason' = stop_reason)]_vars
    /\ []((cancel_at.pc = "swipe" /\ config.scroll_delay_ms > 0)
             => ShotCalls = cancel_at.shots)
    /\ []((cancel_at.pc = "swipe" /\ config.scroll_delay_ms = 0)
             => /\ ShotCalls <= cancel_at.shots + 1
                /\ pc \notin {"decide", "loop_top"})

\* the flag was set between the loop's first checkpoint and the swipe, the
\* delay is positive, and the engine has left the loop after the swipe with
\* no further screenshot
C23_Witness ==
    /\ pc = "stitch"
    /\ stop_reason = UserStop
    /\ cancel_at.pc = "swipe"
    /\ config.scroll_delay_ms > 0
    /\ SwipeCalls = cancel_at.swipes + 1
    /\ ShotCalls = cancel_at.shots

\* the flag was set while the engine was inside the loop
CancelledInLoop ==
    /\ cancel
    /\ cancel_at.pc \in {"loop_top", "swipe", "sleep", "capture",
                         "after_capture", "decide"}
\* the engine is inside the loop
InLoop ==
    pc \in {"loop_top", "swipe", "sleep", "capture", "after_capture",
            "decide"}

\* C24: once the flag has been set inside the loop, at most one more swipe
\* and at most one more screenshot are issued, and the engine has left the
\* loop once both were; a bridge call the engine has come to is carried out
\* to its end, flag or no flag.
C24_AtMostOneMoreCall ==
    /\ [](CancelledInLoop =>
            /\ SwipeCalls <= cancel_at.swipes + 1
            /\ ShotCalls <= cancel_at.shots + 1
            /\ (/\ SwipeCalls = cancel_at.swipes + 1
                /\ ShotCalls = cancel_at.shots + 1)
                   => pc \notin {"loop_top", "swipe", "sleep", "capture",
                                 "decide"})
    /\ [][(cancel /\ pc = "swipe") =>
             /\ calls' = Append(calls, Call("swipe", serial, swipe))
             /\ pc' \in {"sleep", "raised"}
             /\ pc' = "raised" => error' = "capture-failed"]_vars
    /\ [][(cancel /\ pc = "capture") =>
             /\ calls' = Append(calls, Call("capture_screen", serial, NoSwipe))
             /\ pc' \in {"after_capture", "raised"}
             /\ pc' = "raised" => error' = "capture-failed"]_vars

\* the flag was set just before a swipe with no delay after it: that swipe
\* and the screenshot after it were issued, and the engine then left the loop
C24_Witness ==
    /\ pc = "stitch"
    /\ stop_reason = UserStop
    /\ cancel_at.pc = "swipe"
    /\ cancel_at.idx >= 1
    /\ SwipeCalls = cancel_at.swipes + 1
    /\ ShotCalls = cancel_at.shots + 1

\* the engine has left the loop at the checkpoint after a screenshot: the
\* reason is the user's, every swipe was followed by its screenshot, and the
\* detector has not seen the last one
CancelledAfterShot ==
    /\ pc \in {"stitch", "return", "done"}
    /\ stop_reason = UserStop
    /\ ShotCalls = performed_swipes + 1
    /\ Len(verdicts) = performed_swipes - 1
\* frames_captured of the last event of a phase
LastOf(phase) ==
    events[CHOOSE i \in Phases(phase) : \A j \in Phases(phase) : j <= i]

\* C25: when the flag is found set right after a screenshot, the frame is
\* appended, the detector is not run on it, no 'iteration' event is emitted
\* for it and the loop is left with "user requested stop"; the frame is
\* counted in frames_captured of the 'stopping' event, of the 'complete'
\* event and of the result.
C25_CancelAfterScreenshot ==
    /\ [][(pc = "after_capture" /\ stop_event /\ cancel) =>
             /\ frames' = Append(frames, curr)
             /\ verdicts' = verdicts /\ stop' = stop
             /\ Phases("iteration")' = Phases("iteration")
             /\ pc' = "stitch"
             /\ stop_reason' = UserStop
             /\ events' = EmitProgress(events, progress_fn,
                             CaptureProgress("stopping", performed_swipes,
                                             Len(frames) + 1,
                                             config.max_swipes))]_vars
    /\ [](CancelledAfterShot =>
            /\ frames[Len(frames)] = curr
            /\ curr.shot = performed_swipes + 1
            /\ progress_fn =>
                 /\ Cardinality(Phases("iteration")) = Len(verdicts)
                 /\ LastOf("stopping").frames_captured = Len(frames)
                 /\ pc \in {"return", "done"} =>
                      LastOf("complete").frames_captured = Len(frames)
            /\ pc = "done" => result.frames_captured = Len(frames))

\* a run with a sink that was cancelled right after its second screenshot
\* and returned two frames, the detector never having run
C25_Witness ==
    /\ pc = "done"
    /\ progress_fn
    /\ CancelledAfterShot
    /\ cancel_at.pc \in {"capture", "after_capture"}
    /\ performed_swipes = 1
    /\ verdicts = << >>
    /\ result.frames_captured = 2

(***************************************************************************)
(* Properties of the frame buffer.                                         *)
(***************************************************************************)
\* the frame of the iteration is appended and becomes prev
Appended == frames' = Append(frames, curr) /\ prev' = curr
\* the buffer and prev are left as they are
NotAppended == frames' = frames /\ prev' = prev
\* the iteration's low-motion candidate leaves the counter below the limit
BelowLimit ==
    /\ ~stop.should_stop
    /\ stop.low_motion_candidate
    /\ low_motion_hits + 1 < config.low_motion_consecutive

\* C26 as stated: in an iteration that was not cancelled the frame is
\* appended and becomes prev only when the detector did not say stop and
\* low_motion_candidate is false; on a low-motion candidate that leaves the
\* counter below low_motion_consecutive the frame is not appended and prev
\* is unchanged.
C26_AsStated ==
    [][(pc = "decide" /\ pc' # "decide") =>
          /\ Appended => (~stop.should_stop /\ ~stop.low_motion_candidate)
          /\ BelowLimit => NotAppended]_vars

\* C26: in an iteration that was not cancelled the frame is appended and
\* becomes prev exactly when the loop goes on: the detector did not say
\* stop, and low_motion_candidate is false (the counter is reset) or true
\* with the incremented counter below low_motion_consecutive (the counter
\* keeps the increment); the buffer is untouched when the loop is left.
\* Hence every frame of an iteration that did not end the loop is buffered.
C26_AppendedUnlessStopped ==
    /\ [][(pc = "decide" /\ pc' # "decide") =>
             IF ~stop.should_stop /\ (~stop.low_motion_candidate \/ BelowLimit)
             THEN /\ Appended
                  /\ pc' = "loop_top"
                  /\ low_motion_hits' = IF stop.low_motion_candidate
                                        THEN low_motion_hits + 1 ELSE 0
             ELSE /\ NotAppended
                  /\ pc' = "stitch"]_vars
    /\ [](pc = "loop_top" =>
            /\ Len(frames) = idx + 1
            /\ Len(verdicts) = idx
            /\ prev = frames[Len(frames)])

\* the first iteration was a low-motion candidate below the limit of two:
\* its frame is the second of the buffer and the reference of the detector
C26_Witness ==
    /\ pc = "loop_top"
    /\ idx = 1
    /\ config.low_motion_consecutive = 2
    /\ low_motion_hits = 1
    /\ ~verdicts[1].should_stop
    /\ verdicts[1].low_motion_candidate
    /\ Len(frames) = 2
    /\ frames[2] = curr
    /\ prev = curr

(***************************************************************************)
(* Termination.                                                            *)
(***************************************************************************)
\* C27: every capture run ends: it returns a result or raises, whenever the
\* flag is set or never, whatever the detector says, and the loop body is
\* entered at most max_swipes times on the way.
C27_Terminates ==
    /\ <>(pc \in {"done", "raised"})
    /\ [](/\ idx <= config.max_swipes
          /\ SwipeCalls <= config.max_swipes
          /\ Len(verdicts) <= config.max_swipes)
    /\ [](pc = "done" => result # NoResult)
    /\ [](pc = "raised" => error # "")

\* a run that nobody cancelled used up its swipes, each after a delay slept
\* in slices, and returned
C27_Witness ==
    /\ pc = "done"
    /\ ~cancel
    /\ config.max_swipes >= 2
    /\ config.scroll_delay_ms > SleepSliceMs
    /\ idx = config.max_swipes
    /\ SwipeCalls = config.max_swipes
    /\ result.stop_reason = MaxSwipesReached

(***************************************************************************)
(* Properties of the start of a run.                                       *)
(***************************************************************************)
\* resolving the device of the config among the online ones would fail
ResolutionFails == ~ResolveSerial(config.serial, adb.online).ok
\* positions of an operation among the bridge calls
CallsOf(op) == {i \in 1..Len(calls) : calls[i].op = op}

\* C28 as stated: the online serials are queried before availability is
\* checked: with the bridge unavailable and a device resolution that would
\* fail, capture fails with the device's error.
C28_AsStated ==
    (pc = "raised" /\ Validate(config) /\ ~adb.available /\ ResolutionFails)
        => error \in {"device-not-found", "multiple-devices"}

\* C28: availability is checked before the online serials are queried:
\* is_available is the first bridge call and the query the second; with the
\* bridge unavailable capture fails with bridge-unavailable after that one
\* call, whatever the resolution of the device would have given.
C28_AvailabilityFirst ==
    /\ CallsOf("is_available") \subseteq {1}
    /\ CallsOf("list_online_device_serials") \subseteq {2}
    /\ (Validate(config) /\ ~adb.available) =>
           /\ pc \in {"validate", "is_available", "raised"}
           /\ CallsOf("list_online_device_serials") = {}
           /\ pc = "raised" =>
                /\ error = "bridge-unavailable"
                /\ CallsOf("is_available") = {1}
    /\ pc = "raised" /\ error \in {"device-not-found", "multiple-devices"}
           => (adb.available /\ Len(calls) = 2)

\* the bridge is unavailable and no device is online: capture failed on the
\* bridge after its first call
C28_Witness ==
    /\ pc = "raised"
    /\ ~adb.available
    /\ ResolutionFails
    /\ adb.online = << >>
    /\ error = "bridge-unavailable"
    /\ Len(calls) = 1

(***************************************************************************)
(* Properties of the swipe geometry.                                       *)
(***************************************************************************)
\* a coordinate of the swipe: the override if the config has one, else the
\* given share of the first frame's extent, cut to whole pixels
Coordinate(override, extent, percent) ==
    IF override # NoneInt THEN override ELSE (extent * percent) \div 100
\* the SwipeSpec the first frame and the config give
DerivedFromFirst ==
    IF config.simple_mode
    THEN SwipeSpec(first.w \div 2, (first.h * 78) \div 100,
                   first.w \div 2, (first.h * 24) \div 100, AutoDurationMs)
    ELSE SwipeSpec(Coordinate(config.swipe_x1, first.w, 50),
                   Coordinate(config.swipe_y1, first.h, 78),
                   Coordinate(config.swipe_x2, first.w, 50),
                   Coordinate(config.swipe_y2, first.h, 24),
                   config.swipe_duration_ms)

\* C29: the SwipeSpec is derived from the first frame and the loop does not
\* change it: every swipe call of a run carries the resolved serial and that
\* one SwipeSpec, whatever the later screenshots and verdicts are.
C29_OneSwipeSpec ==
    /\ [](\A i \in SwipesIssued :
             /\ calls[i].serial = serial
             /\ calls[i].spec = swipe
             /\ calls[i].spec = DerivedFromFirst
             /\ \A j \in SwipesIssued :
                   calls[i].spec = calls[j].spec
                   /\ calls[i].serial = calls[j].serial)
    /\ [][InLoop => (swipe' = swipe /\ serial' = serial /\ first' = first)]_vars

\* three swipes of one run, between them two screenshots on which the
\* detector gave different verdicts
C29_Witness ==
    /\ Cardinality(SwipesIssued) >= 3
    /\ Len(verdicts) >= 2
    /\ verdicts[1] # verdicts[2]
    /\ \A i \in SwipesIssued : calls[i].spec = DerivedFromFirst

\* the coordinate the advanced mode gives: the override when the config has
\* one, else the value the simple mode gives for the same frame
Overridden(override, simple) == IF override # NoneInt THEN override ELSE simple

\* C30: in advanced mode each of the four coordinates is the config's
\* override when there is one, an override of 0 too, and the simple-mode
\* value for the first frame otherwise, each on its own; the duration is
\* swipe_duration_ms.
C30_AdvancedSwipe ==
    (pc = "done" /\ ~config.simple_mode) =>
        /\ swipe.x1 = Overridden(config.swipe_x1, AutoSwipeSpec(first).x1)
        /\ swipe.y1 = Overridden(config.swipe_y1, AutoSwipeSpec(first).y1)
        /\ swipe.x2 = Overridden(config.swipe_x2, AutoSwipeSpec(first).x2)
        /\ swipe.y2 = Overridden(config.swipe_y2, AutoSwipeSpec(first).y2)
        /\ swipe.duration_ms = config.swipe_duration_ms

\* advanced mode with y1 overridden by 0, x2 not overridden and a duration
\* that is not the simple mode's
C30_Witness ==
    /\ pc = "done"
    /\ ~config.simple_mode
    /\ config.swipe_y1 = 0 /\ swipe.y1 = 0
    /\ config.swipe_x2 = NoneInt /\ swipe.x2 = first.w \div 2
    /\ config.swipe_x1 = 10 /\ swipe.x1 = 10
    /\ config.swipe_y2 = NoneInt /\ swipe.y2 = (first.h * 24) \div 100
    /\ first.h = 454
    /\ swipe.duration_ms = 450

(***************************************************************************)
(* Properties of the detector's low-motion flag and of the overlap         *)
(* searches.                                                               *)
(***************************************************************************)
\* the verdict the two stop rules give for the similarities reported
StopRules(verdict, c) ==
    \/ verdict.bottom_top_similarity >= c.similarity_threshold
    \/ verdict.full_similarity >= FullFrameLimit(c)

\* C31: the detector reports low_motion_candidate exactly when
\* overlap_similarity >= low_motion_similarity and estimated_motion_px <=
\* low_motion_px, and the flag has no part in the verdict: should_stop is
\* what the bottom/top and the full-frame similarities give, and the reason
\* is "continue" when they give no stop, whatever the flag is.
C31_LowMotionFlag ==
    pc = "done" =>
        /\ stop.low_motion_candidate =
              (/\ stop.overlap_similarity >= config.low_motion_similarity
               /\ stop.estimated_motion_px <= config.low_motion_px)
        /\ stop.should_stop = StopRules(stop, config)
        /\ (stop.reason = ContinueReason) = ~StopRules(stop, config)

\* a frame that is a low-motion candidate and does not stop the capture,
\* where the similarity asked of the candidate is met with some motion too
C31_Witness ==
    /\ pc = "done"
    /\ stop.low_motion_candidate
    /\ ~stop.should_stop
    /\ stop.reason = ContinueReason
    /\ stop.estimated_motion_px = 0
    /\ config.low_motion_px = 0

\* the overlaps estimate_scroll_motion tries on frames of h rows
MotionRange(h) ==
    LET lo == IF (55 * h) \div 100 > 8 THEN (55 * h) \div 100 ELSE 8
        step == IF h \div 240 > 1 THEN h \div 240 ELSE 1
    IN  {k \in lo..h : (k - lo) % step = 0}

\* the pixel-difference similarity of the last k rows of prev and the first
\* k rows of curr, as a fraction
ScoreAt(k) == PixelScore(LastRows(prev.px, k), FirstRows(curr.px, k))

\* x scores less than y, x scores no more than y
ScoresBelow(x, y) == x.num * y.den < y.num * x.den
ScoresUpTo(x, y) == x.num * y.den <= y.num * x.den

\* C32: on two frames of h rows, not downscaled, the overlap behind the
\* reported motion (prev.height - motion_px) is one of lo, lo + step, ...
\* up to h with lo = max(8, floor(0.55 h)) and step = max(1, floor(h / 240));
\* no tried overlap scores more, every smaller tried overlap scores less,
\* and the similarity reported is the one measured there; the motion is
\* never negative.
C32_FirstBestOverlap ==
    pc = "done" =>
        /\ stop.estimated_motion_px >= 0
        /\ MotionRange(prev.h) # {} =>
              LET k == prev.h - stop.estimated_motion_px
                  best == ScoreAt(k)
              IN  /\ k \in MotionRange(prev.h)
                  /\ \A j \in MotionRange(prev.h) :
                        IF j < k THEN ScoresBelow(ScoreAt(j), best)
                        ELSE ScoresUpTo(ScoreAt(j), best)
                  /\ stop.overlap_similarity = ScorePermille(best)

\* frames of 480 rows, so that every second overlap from 264 on is tried:
\* the overlap kept is not the least of the range, a larger one scores the
\* same, and an overlap between two tried ones is skipped
C32_Witness ==
    /\ pc = "done"
    /\ prev.h = 480
    /\ LET k == prev.h - stop.estimated_motion_px
       IN  /\ k > 264
           /\ k < 480
           /\ \E j \in MotionRange(prev.h) :
                 j > k /\ ScoresUpTo(ScoreAt(k), ScoreAt(j))
           /\ (k + 1) \notin MotionRange(prev.h)

\* the ends of the range find_best_overlap searches on frames of h rows
OverlapLo(h, c) ==
    IF (h * c.min_overlap_ratio) \div 1000 > 8
    THEN (h * c.min_overlap_ratio) \div 1000 ELSE 8

OverlapHi(h, c) ==
    IF (h * c.max_overlap_ratio) \div 1000 < h - 1
    THEN (h * c.max_overlap_ratio) \div 1000 ELSE h - 1

\* the overlaps it tries
OverlapRange(h, c) ==
    LET step == IF h \div 220 > 1 THEN h \div 220 ELSE 1
    IN  {k \in OverlapLo(h, c)..OverlapHi(h, c) :
            (k - OverlapLo(h, c)) % step = 0}

\* the result is that of a tried overlap: its rows, and the pixel-difference
\* similarity measured there, between 0 and 1
Evaluated(found, h, c) ==
    /\ found.overlap_px \in OverlapRange(h, c)
    /\ found.similarity = ScorePermille(ScoreAt(found.overlap_px))
    /\ found.similarity >= 0
    /\ found.similarity <= 1000

\* the same search with the other similarity measure configured
OtherMeasure(c) == [c EXCEPT !.use_ssim = ~@]

\* C33 as stated: for frames of any common height h >= 1 and a valid
\* config, the overlap returned was tried and carries the similarity
\* measured at it, a value in [0, 1], whatever use_ssim is.
C33_AsStated ==
    pc = "done" =>
        /\ Evaluated(overlaps[1], prev.h, config)
        /\ overlaps[1] = FindBestOverlap(prev, curr, OtherMeasure(config))

\* C33: when the searched range holds an overlap, the overlap returned was
\* tried and carries the pixel-difference similarity measured at it, a value
\* in [0, 1]; when it holds none (frames of at most 8 rows, or ratios that
\* leave nothing at or above 8 rows), the result is the lower end of the
\* range, which was not tried, with the similarity -2.0; either way the
\* result is the same with and without use_ssim.
C33_EvaluatedOverlap ==
    pc = "done" =>
        /\ IF OverlapRange(prev.h, config) # {}
           THEN Evaluated(overlaps[1], prev.h, config)
           ELSE /\ overlaps[1].overlap_px = OverlapLo(prev.h, config)
                /\ overlaps[1].similarity = -2000
        /\ overlaps[1] = FindBestOverlap(prev, curr, OtherMeasure(config))

\* a search over several overlaps, with use_ssim set, whose best is neither
\* the first nor the last tried and is no perfect match
C33_Witness ==
    /\ pc = "done"
    /\ config.use_ssim
    /\ Cardinality(OverlapRange(prev.h, config)) >= 3
    /\ overlaps[1].overlap_px > OverlapLo(prev.h, config)
    /\ overlaps[1].overlap_px < OverlapHi(prev.h, config)
    /\ overlaps[1].similarity < 1000

(***************************************************************************)
(* Properties of the strips the stitcher appends.                          *)
(***************************************************************************)
Clamp(x, lo, hi) == IF x < lo THEN lo ELSE IF x > hi THEN hi ELSE x

\* frames i - 1 and i of the list have the first frame's size and rows the
\* model knows, so normalizing leaves them as they are
KnownPair(i) ==
    /\ frames[i - 1].px # Opaque /\ frames[i].px # Opaque
    /\ SameSize(frames[i - 1], frames[1]) /\ SameSize(frames[i], frames[1])

\* C34: frame i > 1 is appended whole when the similarity of the overlap
\* found for it is below overlap_min_similarity, and from row
\* clamp(overlap_px, 1, H - 1) on otherwise, so it adds between 1 and H rows;
\* the overlap found for it is one of the whole previous frame: its
\* similarity is that of the previous frame's last overlap_px rows and the
\* frame's first overlap_px rows.
C34_CropOrWhole ==
    (pc = "done" /\ frames # << >>) =>
        \A i \in 2..Len(frames) :
            LET H == frames[1].h
                found == overlaps[i - 1]
                part == stitched.parts[i]
            IN  /\ IF found.similarity < config.overlap_min_similarity
                   THEN part.from = 0 /\ part.rows = H
                   ELSE /\ part.from = Clamp(found.overlap_px, 1, H - 1)
                        /\ part.rows = H - part.from
                /\ part.rows >= 1
                /\ part.rows <= H
                /\ (KnownPair(i) /\ OverlapRange(H, config) # {}) =>
                      /\ found.overlap_px \in OverlapRange(H, config)
                      /\ found.similarity =
                            ScorePermille(PixelScore(
                                LastRows(frames[i - 1].px, found.overlap_px),
                                FirstRows(frames[i].px, found.overlap_px)))

\* three frames of known rows: the second is cropped to less than the
\* overlap the third is matched against, and the third is cropped too; the
\* second and the first differ, so the third's overlap with the first would
\* be another
C34_Witness ==
    /\ pc = "done"
    /\ Len(frames) = 3
    /\ KnownPair(2) /\ KnownPair(3)
    /\ stitched.parts[2].from > 0
    /\ stitched.parts[2].rows < overlaps[2].overlap_px
    /\ stitched.parts[3].from > 0
    /\ frames[1] # frames[2]

(***************************************************************************)
(* Properties of the frame buffer and of the counters.                     *)
(***************************************************************************)
\* the size the bridge gave the screenshot a frame was made of
RawSize(frame) == screenshots[frame.shot]

\* C35: every frame of the buffer has the size of the first capture, and so
\* have the two frames the detector is handed and the frame the
\* cancel-after-screenshot path appends, whatever size the bridge gave.
C35_FramesOfFirstSize ==
    /\ \A i \in 1..Len(frames) : SameSize(frames[i], first)
    /\ pc \in {"after_capture", "decide"} =>
          (SameSize(curr, first) /\ SameSize(prev, first))

\* a run cancelled right after its last screenshot: the bridge gave the
\* second and the last screenshot in a size that is not the first one's, the
\* second went through the detector and the last was appended on the cancel
\* path
C35_Witness ==
    /\ pc = "done"
    /\ Len(frames) = 3
    /\ stop_reason = UserStop
    /\ cancel_at.pc \in {"capture", "after_capture"}
    /\ Len(verdicts) = 1
    /\ ~SameSize(RawSize(frames[2]), first)
    /\ ~SameSize(RawSize(frames[3]), first)
    /\ SameSize(frames[3], first)

\* the run was cancelled during the post-swipe delay: the last swipe was
\* counted and no frame came of it
DelayCancelled == stop_reason = UserStop /\ Len(frames) = performed_swipes

CountsAgree ==
    /\ Len(frames) <= performed_swipes + 1
    /\ \A i \in 1..Len(events) :
          events[i].frames_captured <= events[i].swipes_performed + 1
    /\ pc = "done" =>
          /\ result.frames_captured <= result.swipes_performed + 1
          /\ ShotCalls = IF DelayCancelled THEN result.swipes_performed
                         ELSE result.swipes_performed + 1

\* the step that leaves the post-swipe delay because of the cancel flag
LeavesDelayCancelled == pc = "sleep" /\ pc' = "stitch"

\* C36: the buffer never holds more than performed_swipes + 1 frames; every
\* progress event and the result carry frames_captured <= swipes_performed
\* + 1; a returned run made swipes_performed + 1 screenshot calls, and
\* swipes_performed when it was cancelled during the post-swipe delay,
\* which are the runs that leave the loop from the delay.
C36_CountsAgree ==
    /\ []CountsAgree
    /\ [][(pc # "stitch" /\ pc' = "stitch") =>
             (LeavesDelayCancelled <=> DelayCancelled')]_vars

\* a run with a progress sink, cancelled during the delay after its second
\* swipe: two screenshot calls, two swipes, two frames
C36_Witness ==
    /\ pc = "done"
    /\ progress_fn
    /\ DelayCancelled
    /\ cancel_at.pc = "sleep"
    /\ result.swipes_performed = 2
    /\ ShotCalls = 2
    /\ result.frames_captured = 2
    /\ \E i \in 1..Len(events) :
          events[i].frames_captured = events[i].swipes_performed + 1

\* the 'complete' event, when a sink was passed, is the last event of a
\* returned run and carries the result's frame count
CompleteAgrees ==
    (pc = "done" /\ progress_fn) =>
        /\ Len(events) >= 1
        /\ events[Len(events)].phase = "complete"
        /\ events[Len(events)].frames_captured = result.frames_captured

\* event i + 1 is the 'stopping' event of the iteration whose 'iteration'
\* event is event i: the frame counted by the latter was not kept
DropsCountedFrame(i) ==
    /\ events[i].phase = "iteration"
    /\ events[i + 1].phase = "stopping"
    /\ events[i + 1].swipes_performed = events[i].swipes_performed
    /\ events[i + 1].frames_captured = events[i].frames_captured - 1

\* C37 as stated: the frames_captured of successive progress events never
\* decreases, and 'complete' carries the result's frames_captured.
C37_AsStated ==
    /\ \A i \in 1..(Len(events) - 1) :
          events[i + 1].frames_captured >= events[i].frames_captured
    /\ CompleteAgrees

\* C37: the frames_captured of successive progress events never decreases,
\* except from an 'iteration' event to the 'stopping' event of the same
\* iteration, which carries exactly one less; 'complete' carries the
\* result's frames_captured.
C37_CountDropsOnlyOnStop ==
    /\ \A i \in 1..(Len(events) - 1) :
          \/ events[i + 1].frames_captured >= events[i].frames_captured
          \/ DropsCountedFrame(i)
    /\ CompleteAgrees

\* a returned run stopped by the detector in its second iteration: the
\* events count 1, 2, 3, 2, 2 frames
C37_Witness ==
    /\ pc = "done"
    /\ progress_fn
    /\ stop_reason \in {BottomTopReason, FullFrameReason}
    /\ Len(events) = 5
    /\ DropsCountedFrame(3)
    /\ events[2].phase = "iteration"
    /\ events[5].phase = "complete"
    /\ events[5].frames_captured = 2
    /\ result.frames_captured = 2

\* the engine is at the head of the loop, about to start an iteration or to
\* find the loop exhausted
AtLoopStart == pc = "loop_top"

\* C38: at the start of every loop iteration 0 <= low_motion_hits <
\* low_motion_consecutive, and the counter is 0 when the iteration before
\* gave a verdict whose low_motion_candidate flag was false.
C38_HitsBelowLimit ==
    AtLoopStart =>
        /\ 0 <= low_motion_hits
        /\ low_motion_hits < config.low_motion_consecutive
        /\ (idx > 0 /\ ~verdicts[Len(verdicts)].low_motion_candidate) =>
              low_motion_hits = 0

\* the third iteration is about to start: the first gave a candidate, the
\* second did not and reset the counter from 1 to 0
C38_Witness ==
    /\ AtLoopStart
    /\ idx = 2
    /\ LoopHasNext(idx, config)
    /\ Len(verdicts) = 2
    /\ verdicts[1].low_motion_candidate
    /\ ~verdicts[2].low_motion_candidate
    /\ config.low_motion_consecutive = 2
    /\ low_motion_hits = 0

(***************************************************************************)
(* The desktop UI (ui.py).  The handlers of the start button, of the stop  *)
(* button and of the drain timer run on the UI thread, one at a time; a    *)
(* disabled button gives no click.  The worker thread hosts engine.capture *)
(* and is seen here through the sinks it was given: the capture puts log   *)
(* and progress events on the queue and then returns or raises.            *)
(***************************************************************************)
\* Thread.is_alive(): from start() until the thread function has been left
IsAlive(k) == app.threads[k].pc \notin {"unstarted", "dead"}

\* self.event_queue.put((type, payload)) by worker k
Put(a, type, k) ==
    [a EXCEPT !.event_queue = Append(@, [type |-> type, from |-> k]),
              !.puts = Append(@, [type |-> type, from |-> k])]

\* Variant: a start is not refused while the previous worker is alive.
StartCapture_NoAliveCheck ==
    /\ pc = "ui"
    /\ app.start_button
    /\ \E cfg \in {DefaultConfig, [DefaultConfig EXCEPT !.max_swipes = 0]} :
           IF ~Validate(cfg)
           THEN app' = [app EXCEPT !.dialog = "Invalid Configuration"]
           ELSE /\ app.created < MaxStarts
                /\ LET k == app.created + 1
                   IN  app' = [app EXCEPT !.current_max_swipes = cfg.max_swipes,
                                          !.stop_event = k,
                                          !.created = k,
                                          !.start_button = FALSE,
                                          !.stop_button = TRUE,
                                          !.status_label = "Capturing...",
                                          !.worker = k,
                                          !.threads[k].pc = "work"]
    /\ UNCHANGED <<stitched, store, upserts, suggested, imported, overlaps,
                   verdicts, screenshots, inputs, cancel, cancel_at, serial,
                   loopState, calls, events, logs, written, result, error, pc>>

\* _start_capture, the click handler of the start button: refused while the
\* worker is alive, given up on an invalid form, else a new Event, the
\* running state and a new worker thread, started
StartCapture ==
    /\ pc = "ui"
    /\ app.start_button
    /\ IF app.worker # 0 /\ IsAlive(app.worker)
       THEN app' = [app EXCEPT !.dialog = "Capture is already running"]
       ELSE \E cfg \in {DefaultConfig, [DefaultConfig EXCEPT !.max_swipes = 0]} :
                IF ~Validate(cfg)
                THEN app' = [app EXCEPT !.dialog = "Invalid Configuration"]
                ELSE /\ app.created < MaxStarts
                     /\ LET k == app.created + 1
                        IN  app' = [app EXCEPT !.current_max_swipes = cfg.max_swipes,
                                               !.stop_event = k,
                                               !.created = k,
                                               !.start_button = FALSE,
                                               !.stop_button = TRUE,
                                               !.status_label = "Capturing...",
                                               !.worker = k,
                                               !.threads[k].pc = "work"]
    /\ UNCHANGED <<stitched, store, upserts, suggested, imported, overlaps,
                   verdicts, screenshots, inputs, cancel, cancel_at, serial,
                   loopState, calls, events, logs, written, result, error, pc>>

\* _work, the function of worker thread k, step by step: the call of
\* engine.capture reads self.stop_event; the capture emits through its
\* sinks, then returns (two log lines) or raises (one); 'done' is put in
\* the finally clause; then the thread ends
Work ==
    /\ pc = "ui"
    /\ \E k \in 1..MaxStarts :
           LET t == app.threads[k]
           IN  \/ /\ t.pc = "work"
                  /\ app' = [app EXCEPT !.threads[k].pc = "capture",
                                        !.threads[k].stop_event = app.stop_event]
               \/ /\ t.pc = "capture"
                  /\ t.emitted < MaxWorkerEvents
                  /\ \E type \in {"log", "progress"} :
                         app' = Put([app EXCEPT !.threads[k].emitted = @ + 1],
                                    type, k)
               \/ /\ t.pc = "capture"
                  /\ app' = [app EXCEPT !.threads[k].pc = "returned",
                                        !.threads[k].outcome = "returned"]
               \/ /\ t.pc = "capture"
                  /\ app' = Put([app EXCEPT !.threads[k].pc = "finally",
                                            !.threads[k].outcome = "raised"],
                                "log", k)
               \/ /\ t.pc = "returned"
                  /\ app' = Put([app EXCEPT !.threads[k].pc = "summary"],
                                "log", k)
               \/ /\ t.pc = "summary"
                  /\ app' = Put([app EXCEPT !.threads[k].pc = "finally"],
                                "log", k)
               \/ /\ t.pc = "finally"
                  /\ app' = Put([app EXCEPT !.threads[k].pc = "exit"],
                                "done", k)
               \/ /\ t.pc = "exit"
                  /\ app' = [app EXCEPT !.threads[k].pc = "dead"]
    /\ UNCHANGED <<stitched, store, upserts, suggested, imported, overlaps,
                   verdicts, screenshots, inputs, cancel, cancel_at, serial,
                   loopState, calls, events, logs, written, result, error, pc>>

\* _stop_capture, the click handler of the stop button
StopCapture ==
    /\ pc = "ui"
    /\ app.stop_button
    /\ IF app.worker = 0 \/ ~IsAlive(app.worker) \/ app.stop_event = 0
       THEN UNCHANGED app
       ELSE app' = [app EXCEPT !.stop_button = FALSE,
                               !.status_label = "Stopping and saving...",
                               !.is_set = @ \cup {app.stop_event}]
    /\ UNCHANGED <<stitched, store, upserts, suggested, imported, overlaps,
                   verdicts, screenshots, inputs, cancel, cancel_at, serial,
                   loopState, calls, events, logs, written, result, error, pc>>

\* _drain_events, the timer's handler: everything on the queue is taken
\* off; 'done' ends the running state and forgets the stop event.  Nothing
\* else runs on the UI thread during a drain, and no worker reads the
\* fields it writes while its own 'done' is on the queue.
DrainEvents ==
    /\ pc = "ui"
    /\ app.event_queue # << >>
    /\ app' = IF \E i \in 1..Len(app.event_queue) :
                     app.event_queue[i].type = "done"
              THEN [app EXCEPT !.event_queue = << >>,
                               !.start_button = TRUE,
                               !.stop_button = FALSE,
                               !.status_label = "Idle",
                               !.stop_event = 0]
              ELSE [app EXCEPT !.event_queue = << >>]
    /\ UNCHANGED <<stitched, store, upserts, suggested, imported, overlaps,
                   verdicts, screenshots, inputs, cancel, cancel_at, serial,
                   loopState, calls, events, logs, written, result, error, pc>>

\* The application after construction: nothing captured, the window shown.
InitUi ==
    /\ AtRest
    /\ InitAux
    /\ pc = "ui"

\* what the user, the timer and the worker threads can do from there
SpecUi == InitUi /\ [][StartCapture \/ Work \/ StopCapture \/ DrainEvents]_vars

\* the worker threads that are alive
AliveWorkers == {k \in 1..MaxStarts : IsAlive(k)}

\* the events worker k has put on the queue so far, in order
PutsOf(k) == SelectSeq(app.puts, LAMBDA e : e.from = k)

\* 'done' is put once, after everything else a worker puts, and a worker
\* that has left its function has put it
DoneLast ==
    \A k \in 1..MaxStarts :
        LET mine == PutsOf(k)
        IN  /\ \A i \in 1..Len(mine) : (mine[i].type = "done" => i = Len(mine))
            /\ (app.threads[k].pc \in {"exit", "dead"}) =>
                  /\ mine # << >>
                  /\ mine[Len(mine)].type = "done"
                  /\ app.threads[k].outcome \in {"returned", "raised"}

\* the capture worker k hosts was handed the Event created with it
OwnStopEvent ==
    \A k \in 1..MaxStarts :
        app.threads[k].pc \notin {"unstarted", "work"} =>
            app.threads[k].stop_event = k

\* while a worker is alive a step starts no thread and creates no event
NothingStartedWhileAlive ==
    (AliveWorkers # {}) =>
        /\ app'.created = app.created
        /\ AliveWorkers' \subseteq AliveWorkers

\* a step that sets an event sets the one of the worker that is alive
SetsRunningOnly ==
    (app'.is_set # app.is_set) =>
        \E k \in AliveWorkers :
            /\ app'.is_set = app.is_set \cup {k}
            /\ app.threads[k].stop_event \in {0, k}

\* C39: at most one worker thread is alive at any time; while a worker is
\* alive no step starts a thread or creates a stop event; each worker puts
\* 'done' last, after its log and progress events, whether its capture
\* returned or raised; a step that sets a stop event sets the one of the
\* capture hosted by the worker that is alive, and nothing else.
C39_OneWorker ==
    /\ [](Cardinality(AliveWorkers) <= 1 /\ DoneLast /\ OwnStopEvent)
    /\ [][NothingStartedWhileAlive /\ SetsRunningOnly]_vars

\* the first capture raised and its worker is gone; a start clicked while
\* that worker was still alive was refused; the second capture was stopped,
\* returned, and its worker has just put 'done' and is still alive
C39_Witness ==
    /\ pc = "ui"
    /\ app.created = 2
    /\ app.threads[1].outcome = "raised"
    /\ app.threads[1].pc = "dead"
    /\ app.threads[2].outcome = "returned"
    /\ app.threads[2].pc = "exit"
    /\ app.is_set = {2}
    /\ app.dialog = "Capture is already running"
    /\ Len(PutsOf(2)) = 5
    /\ app.puts[Len(app.puts)] = [type |-> "done", from |-> 2]

====
